---- MODULE Spec2Model ----
(***************************************************************************)
(* Metadata synchronization engine of youtube-analysis-backend:            *)
(* YouTubeSubscriptionService (subscribe / refresh), the YouTubeDataApi    *)
(* client, the YouTubeMetadataService store and the ISO-8601 duration      *)
(* parser, as state machines over the relational mirror.                   *)
(***************************************************************************)
EXTENDS Integers, Sequences, FiniteSets, TLC

VARIABLES
  db,        \* the committed relational store, one set of rows per table
  up,        \* the platform: the number of revisions it has published
  today,     \* the UTC date of the wall clock (new Date())
  queue,     \* setImmediate callbacks pending: channel ids of deferred syncs
  last,      \* the last operation: its arguments, outcome and effects
  arg,       \* the argument of a function that is exercised on its own
  res        \* and its result

vars == <<db, up, today, queue, last, arg, res>>

(***************************************************************************)
(* Bounds of the model                                                     *)
(***************************************************************************)
MaxTime == 2         \* events of the Timeline that happen in one behaviour

NULL == "NULL"       \* SQL NULL / JS null of a string-valued field
None == << >>        \* null of a number-valued field; <<n>> is the number n

Users == {"u1"}
\* "c1" exists on the platform, "cx" does not
Channels == {"c1", "cx"}
UpChannels == {"c1"}
Playlists == {"P1", "P2"}
Videos == {"A", "B", "C", "D"}

(***************************************************************************)
(* The platform (what the YouTube Data API answers)                        *)
(***************************************************************************)
Resources == UpChannels \cup Playlists \cup Videos
\* resources the platform sends without a revision tag (item.etag ?? null)
Tagless == {"C"}
\* the revisions the platform publishes, in order: the resources whose
\* content (and revision tag) changes in each
Revisions ==
  <<{"c1", "B", "P2"}, {"P2", "A"}, {"c1", "B"}, {"P1", "P2"}, {"B"}>>
\* what happens around the service as time passes: the platform publishes
\* its next revision, or midnight UTC passes
Timeline ==
  <<"revision", "midnight", "revision", "midnight", "revision", "midnight">>
\* the revision of resource x after u revisions were published
RevOf(u, x) == 1 + Cardinality({k \in 1..u : x \in Revisions[k]})
\* the revision tag the platform attaches to revision v of resource x
EtagOf(x, v) ==
  IF x \in Tagless THEN NULL ELSE <<"e1", "e2", "e3", "e4", "e5">>[v]
\* snippet.customUrl of revision v of a channel
HandleOf(v) == <<"@h1", "@h2", "@h3", "@h4", "@h5">>[v]

UploadsOf(c) == IF c = "c1" THEN "UU" ELSE NULL
PlaylistsOf(c) == IF c = "c1" THEN <<"P1", "P2">> ELSE << >>
\* playlistItems of a playlist, in page order; a playlist may hold a video
\* of another channel ("D" is in no uploads list) and the same video twice
ItemsOf(p) ==
  CASE p = "UU" -> <<"A", "B", "C">>
    [] p = "P1" -> <<"B", "D">>
    [] p = "P2" -> <<"D", "A", "D", "C">>
    [] OTHER -> << >>
OwnerOf(v) == IF v = "D" THEN "c9" ELSE "c1"

\* contentDetails.duration of each video, as a sequence of characters
DurationOf(v) ==
  CASE v = "A" -> <<"P", "T", "2", "M", "5", "9", "S">>
    [] v = "B" -> <<"P", "T", "3", "M", "1", "S">>
    [] v = "C" -> <<"l", "i", "v", "e">>
    [] OTHER -> << >>

\* commentThreads of each video in relevance order, page by page: the
\* channel id of each thread's author
CommentPagesOf(v) ==
  CASE v = "A" -> << <<"c1">> >>
    [] v = "B" -> << <<"c1">>, <<"c1", "z">> >>
    [] v = "C" -> << <<"y">> >>
    [] v = "D" -> << <<"c9">> >>
    [] OTHER -> << << >> >>

SeqToSet(s) == {s[i] : i \in DOMAIN s}

(***************************************************************************)
(* utils/isoDuration: parseIso8601DurationToSeconds                        *)
(***************************************************************************)
ShortLimit == 180
Digits == {"0", "1", "2", "3", "4", "5", "6", "7", "8", "9"}
DigitVal(c) ==
  CASE c = "0" -> 0 [] c = "1" -> 1 [] c = "2" -> 2 [] c = "3" -> 3
    [] c = "4" -> 4 [] c = "5" -> 5 [] c = "6" -> 6 [] c = "7" -> 7
    [] c = "8" -> 8 [] c = "9" -> 9
\* the /i flag: letters match in either case
Upper(c) ==
  CASE c = "p" -> "P" [] c = "t" -> "T" [] c = "d" -> "D" [] c = "h" -> "H"
    [] c = "m" -> "M" [] c = "s" -> "S" [] OTHER -> c

RECURSIVE Trim(_)
Trim(s) ==
  IF s = << >> THEN s
  ELSE IF Head(s) = " " THEN Trim(Tail(s))
  ELSE IF s[Len(s)] = " " THEN Trim(SubSeq(s, 1, Len(s) - 1))
  ELSE s

\* length of the longest prefix of digits (\d+ is greedy)
RECURSIVE DigitsLen(_)
DigitsLen(s) ==
  IF s = << >> \/ Head(s) \notin Digits THEN 0 ELSE 1 + DigitsLen(Tail(s))

\* Number.parseInt(digits, 10)
RECURSIVE ParseInt(_)
ParseInt(s) ==
  IF s = << >> THEN 0
  ELSE 10 * ParseInt(SubSeq(s, 1, Len(s) - 1)) + DigitVal(s[Len(s)])

\* the part after "T": (\d+H)?(\d+M)?(\d+(\.\d+)?S)?$ ; stage is the first
\* unit still allowed (1 = H, 2 = M, 3 = S), acc the seconds so far.
\* Math.round of the total rounds a fraction of .5 or more up.
RECURSIVE ParseTime(_, _, _)
ParseTime(r, stage, acc) ==
  IF r = << >> THEN <<acc>>
  ELSE
    LET n == DigitsLen(r)
        num == ParseInt(SubSeq(r, 1, n))
        rest == SubSeq(r, n + 1, Len(r))
        unit == Upper(Head(rest))
        m == DigitsLen(Tail(rest))
        after == SubSeq(rest, m + 2, Len(rest))
    IN IF n = 0 \/ rest = << >> THEN None
       ELSE IF unit = "H" /\ stage <= 1
       THEN ParseTime(Tail(rest), 2, acc + 3600 * num)
       ELSE IF unit = "M" /\ stage <= 2
       THEN ParseTime(Tail(rest), 3, acc + 60 * num)
       ELSE IF unit = "S"
       THEN IF Tail(rest) = << >> THEN <<acc + num>> ELSE None
       ELSE IF unit = "." /\ m > 0 /\ Len(after) = 1 /\ Upper(after[1]) = "S"
       THEN <<acc + num + (IF DigitVal(rest[2]) >= 5 THEN 1 ELSE 0)>>
       ELSE None

\* the part after "P": (\d+D)?(T...)?$
ParseDate(r) ==
  LET n == DigitsLen(r)
      days == ParseInt(SubSeq(r, 1, n))
      rest == SubSeq(r, n + 1, Len(r))
      hasDays == n > 0 /\ rest # << >> /\ Upper(Head(rest)) = "D"
      acc == IF hasDays THEN 86400 * days ELSE 0
      tail == IF hasDays THEN Tail(rest) ELSE r
  IN IF tail = << >> THEN <<acc>>
     ELSE IF Upper(Head(tail)) = "T" THEN ParseTime(Tail(tail), 1, acc)
     ELSE None

\* value is a sequence of characters, << >> for null, undefined and ""
parseIso8601DurationToSeconds(value) ==
  LET trimmed == Trim(value)
  IN IF trimmed = << >> THEN None
     ELSE IF Upper(Head(trimmed)) # "P" THEN None
     ELSE ParseDate(Tail(trimmed))

\* a limit of less than 180 seconds
isShortOfBelowLimit(durationSeconds) ==
  IF durationSeconds # None THEN durationSeconds[1] < ShortLimit ELSE FALSE

\* persistVideos: durationSeconds !== null ? durationSeconds <= 180 : false
isShortOf(durationSeconds) ==
  IF durationSeconds # None THEN durationSeconds[1] <= ShortLimit ELSE FALSE

ShortRuleVersion == "v1_180s"

(***************************************************************************)
(* YouTubeMetadataService: the tables and their statements                 *)
(***************************************************************************)
EmptyDb ==
  [channels |-> {}, channelStats |-> {}, channelDaily |-> {},
   playlists |-> {}, videos |-> {}, videoStats |-> {}, videoDaily |-> {},
   topComments |-> {}, etags |-> {}, subs |-> {}]

\* INSERT ... ON CONFLICT (key) DO UPDATE SET <every other column>
UpsertRow(table, conflicts, row) ==
  {r \in table : r \notin conflicts} \cup {row}

\* a plain INSERT, as if the statement had no ON CONFLICT clause
InsertAlways(table, conflicts, row) == table \cup {row}

\* INSERT ... ON CONFLICT (key) DO NOTHING
InsertOrIgnore(table, conflicts, row) ==
  IF conflicts # {} THEN table ELSE table \cup {row}

getChannelById(d, channelId) == {r \in d.channels : r.id = channelId}

upsertChannel(d, row) ==
  [d EXCEPT !.channels = UpsertRow(@, {r \in @ : r.id = row.id}, row)]

upsertChannelStatistics(d, row) ==
  [d EXCEPT !.channelStats =
     UpsertRow(@, {r \in @ : r.channelId = row.channelId}, row)]

upsertChannelStatisticsDailySnapshot(d, row) ==
  [d EXCEPT !.channelDaily =
     UpsertRow(@, {r \in @ : r.channelId = row.channelId
                             /\ r.snapshotDate = row.snapshotDate}, row)]

getEtag(d, resourceType, resourceId) ==
  {r \in d.etags : r.resourceType = resourceType /\ r.resourceId = resourceId}

\* the INSERT without its ON CONFLICT clause
insertEtag(d, row) == [d EXCEPT !.etags = @ \cup {row}]

upsertEtag(d, row) ==
  [d EXCEPT !.etags =
     UpsertRow(@, {r \in @ : r.resourceType = row.resourceType
                             /\ r.resourceId = row.resourceId}, row)]

\* a statement that writes no playlist row
upsertPlaylistNothing(d, row) == d

upsertPlaylist(d, row) ==
  [d EXCEPT !.playlists = UpsertRow(@, {r \in @ : r.id = row.id}, row)]

upsertVideo(d, row) ==
  [d EXCEPT !.videos = UpsertRow(@, {r \in @ : r.id = row.id}, row)]

\* UPDATE youtube_videos SET <derived columns> WHERE id = $1 AND (one of them
\* IS DISTINCT FROM its new value)
ShortMetadataTargets(d, input) ==
  {r \in d.videos :
     /\ r.id = input.videoId
     /\ \/ r.duration # input.duration
        \/ r.durationSeconds # input.durationSeconds
        \/ r.isShort # input.isShort
        \/ r.shortRuleVersion # input.shortRuleVersion}

updateVideoShortMetadata(d, input) ==
  [d EXCEPT !.videos =
     {IF r \in ShortMetadataTargets(d, input)
      THEN [r EXCEPT !.duration = input.duration,
                     !.durationSeconds = input.durationSeconds,
                     !.isShort = input.isShort,
                     !.shortRuleVersion = input.shortRuleVersion]
      ELSE r : r \in @}]

upsertVideoStatistics(d, row) ==
  [d EXCEPT !.videoStats =
     UpsertRow(@, {r \in @ : r.videoId = row.videoId}, row)]

\* a snapshot INSERT without the ON CONFLICT (video_id, snapshot_date) clause
insertVideoStatisticsDailySnapshot(d, row) ==
  [d EXCEPT !.videoDaily = @ \cup {row}]

upsertVideoStatisticsDailySnapshot(d, row) ==
  [d EXCEPT !.videoDaily =
     UpsertRow(@, {r \in @ : r.videoId = row.videoId
                             /\ r.snapshotDate = row.snapshotDate}, row)]

upsertVideoTopComment(d, row) ==
  [d EXCEPT !.topComments =
     UpsertRow(@, {r \in @ : r.videoId = row.videoId}, row)]

\* SubscribedChannelService
subscribeUserToChannel(d, userId, channelId, customUrl) ==
  [d EXCEPT !.subs =
     InsertOrIgnore(@, {r \in @ : r.userId = userId /\ r.channelId = channelId},
                    [userId |-> userId, channelId |-> channelId,
                     customUrl |-> IF customUrl = NULL THEN channelId
                                   ELSE customUrl])]

unsubscribeUserFromChannel(d, userId, channelId) ==
  [d EXCEPT !.subs = {r \in @ : ~(r.userId = userId /\ r.channelId = channelId)}]

(***************************************************************************)
(* A unit of work: the statements issued on one connection between BEGIN   *)
(* and COMMIT/ROLLBACK.  t.db is what the connection sees, t.err the error *)
(* thrown so far, t.writes the (table, key) pairs written, t.calls the     *)
(* requests sent to the platform, t.warned the videos a warning was logged *)
(* for.  fp names the call that fails in this run ("none": no call fails). *)
(***************************************************************************)
Ok(t) == t.err = "none"

Begin(d, fp) ==
  [db |-> d, err |-> IF fp = "BEGIN" THEN "DB_ERROR" ELSE "none",
   failed |-> IF fp = "BEGIN" THEN "BEGIN" ELSE "none",
   writes |-> {}, calls |-> 0, warned |-> {}]

\* `await`: the value a call resolved to, handed to the rest of the function
Await(value, rest(_)) == rest(value)

\* a statement whose failure is skipped over: nothing is written, nothing
\* is thrown
QueryNotThrowing(t, fp, name, newdb, touched) ==
  IF ~Ok(t) \/ fp = name THEN t
  ELSE [t EXCEPT !.db = newdb, !.writes = @ \cup touched]

\* a statement: throws when it is the failing one, else the view becomes
\* newdb; touched are the (table, key) pairs it writes
Query(t, fp, name, newdb, touched) ==
  IF ~Ok(t) THEN t
  ELSE IF fp = name THEN [t EXCEPT !.err = "DB_ERROR", !.failed = name]
  ELSE [t EXCEPT !.db = newdb, !.writes = @ \cup touched]

\* a SELECT
Select(t, fp, name) == Query(t, fp, name, t.db, {})

\* YouTubeDataApi.request: throws when the call fails
Request(t, fp, name) ==
  IF ~Ok(t) THEN t
  ELSE IF fp = name
  THEN [t EXCEPT !.err = "YOUTUBE_API", !.failed = name, !.calls = @ + 1]
  ELSE [t EXCEPT !.calls = @ + 1]

Throw(t, code) ==
  IF Ok(t) THEN [t EXCEPT !.err = code, !.failed = "throw"] ELSE t

\* a transaction whose catch block does not ROLLBACK
runInTransactionNoRollback(d, t, fp) ==
  IF ~Ok(t) THEN [db |-> t.db, err |-> t.err, failed |-> t.failed]
  ELSE IF fp = "COMMIT" THEN [db |-> d, err |-> "DB_ERROR", failed |-> "COMMIT"]
  ELSE [db |-> t.db, err |-> "none", failed |-> "none"]

\* runInTransaction: the store and the error after the callback ran on view
\* t of store d: COMMIT publishes the view, any error rolls it back
runInTransaction(d, t, fp) ==
  IF ~Ok(t) THEN [db |-> d, err |-> t.err, failed |-> t.failed]
  ELSE IF fp = "COMMIT" THEN [db |-> d, err |-> "DB_ERROR", failed |-> "COMMIT"]
  ELSE [db |-> t.db, err |-> "none", failed |-> "none"]

(***************************************************************************)
(* YouTubeDataApi                                                          *)
(***************************************************************************)
\* channels.list?id=: the mapped item, found = FALSE for an empty result
fetchChannelById(u, channelId) ==
  IF channelId \in UpChannels
  THEN [found |-> TRUE, id |-> channelId, content |-> RevOf(u, channelId),
        customUrl |-> HandleOf(RevOf(u, channelId)),
        uploadsPlaylistId |-> UploadsOf(channelId),
        viewCount |-> RevOf(u, channelId),
        etag |-> EtagOf(channelId, RevOf(u, channelId))]
  ELSE [found |-> FALSE, id |-> channelId, content |-> 0, customUrl |-> NULL,
        uploadsPlaylistId |-> NULL, viewCount |-> 0, etag |-> NULL]

\* playlists.list?channelId=: every page concatenated
fetchPlaylistsByChannel(u, channelId) ==
  [i \in DOMAIN PlaylistsOf(channelId) |->
     LET p == PlaylistsOf(channelId)[i]
     IN [id |-> p, channelId |-> channelId, content |-> RevOf(u, p),
         etag |-> EtagOf(p, RevOf(u, p))]]

\* playlistItems.list?playlistId=: the video ids of every page, in order
fetchPlaylistVideoIds(playlistId) == ItemsOf(playlistId)

\* videos.list?id=: the mapped items of every batch, in request order
fetchVideosByIds(u, videoIds) ==
  LET known == SelectSeq(videoIds, LAMBDA v : v \in Videos)
  IN [i \in DOMAIN known |->
        LET v == known[i]
        IN [id |-> v, channelId |-> OwnerOf(v), content |-> RevOf(u, v),
            duration |-> DurationOf(v), viewCount |-> RevOf(u, v),
            etag |-> EtagOf(v, RevOf(u, v))]]

\* a comment thread item is the channel id of its author, NULL when the
\* comment carries no authorChannelId, NoSnippet when the item has no
\* top-level comment (mapCommentThreadItemToDetails returns null)
NoSnippet == "-"
NotFound == [found |-> FALSE, author |-> NULL]

\* a scan that takes the first thread of the page, whoever wrote it
firstThread(page, excluded) ==
  IF page = << >> THEN NotFound ELSE [found |-> TRUE, author |-> Head(page)]

\* the scan of one page of comment threads: the first item that maps to a
\* comment and whose author is not the excluded channel
RECURSIVE firstEligible(_, _)
firstEligible(page, excluded) ==
  IF page = << >> THEN NotFound
  ELSE IF Head(page) = NoSnippet
  THEN firstEligible(Tail(page), excluded)
  ELSE IF excluded # NULL /\ Head(page) # NULL /\ Head(page) = excluded
  THEN firstEligible(Tail(page), excluded)
  ELSE [found |-> TRUE, author |-> Head(page)]

\* commentThreads.list?videoId=&order=relevance, page after page, until a
\* thread is eligible or no page is left; requests counts the pages asked
RECURSIVE fetchTopCommentPages(_, _, _)
fetchTopCommentPages(pages, excluded, requests) ==
  LET hit == firstEligible(Head(pages), excluded)
  IN IF hit.found
     THEN [found |-> TRUE, author |-> hit.author, requests |-> requests + 1]
     ELSE IF Len(pages) = 1
     THEN [found |-> FALSE, author |-> NULL, requests |-> requests + 1]
     ELSE fetchTopCommentPages(Tail(pages), excluded, requests + 1)

\* pages: the responses the platform gives, the last one without a
\* nextPageToken
fetchTopCommentByVideo(pages, excludeChannelId) ==
  fetchTopCommentPages(pages, excludeChannelId, 0)

(***************************************************************************)
(* YouTubeSubscriptionService                                              *)
(***************************************************************************)
\* a saveEtag that stores nothing
saveEtagNothing(t, fp, resourceType, resourceId, etag, timestamp) == t

saveEtag(t, fp, resourceType, resourceId, etag, timestamp) ==
  Query(t, fp, "upsertEtag",
        upsertEtag(t.db, [resourceType |-> resourceType,
                                  resourceId |-> resourceId, etag |-> etag]),
        {<<"etags", resourceId>>})

ChannelRow(channel, now) ==
  [id |-> channel.id, content |-> channel.content,
   customUrl |-> channel.customUrl,
   uploadsPlaylistId |-> channel.uploadsPlaylistId]

ChannelStatsRow(channel, now) ==
  [channelId |-> channel.id, viewCount |-> channel.viewCount]

ChannelDailyRow(channel, now) ==
  [channelId |-> channel.id, snapshotDate |-> now,
   viewCount |-> channel.viewCount]

\* upsertChannel, upsertChannelStatistics
channelWrites(t, fp, channel, now) ==
  Await(Query(t, fp, "upsertChannel",
              upsertChannel(t.db, ChannelRow(channel, now)),
              {<<"channels", channel.id>>}), LAMBDA t1 :
  Query(t1, fp, "upsertChannelStatistics",
        upsertChannelStatistics(t1.db, ChannelStatsRow(channel, now)),
        {<<"channelStats", channel.id>>}))

snapshotChannel(t, fp, channel, now) ==
  Query(t, fp, "upsertChannelStatisticsDailySnapshot",
        upsertChannelStatisticsDailySnapshot(t.db, ChannelDailyRow(channel, now)),
        {<<"channelDaily", channel.id>>})

\* a seed that leaves the statistics row to the deferred Refresh
seedWritesNoStatistics(t, fp, channel, now) ==
  Await(Query(t, fp, "upsertChannel",
              upsertChannel(t.db, ChannelRow(channel, now)),
              {<<"channels", channel.id>>}), LAMBDA t1 :
  Await(snapshotChannel(t1, fp, channel, now), LAMBDA t3 :
  saveEtag(t3, fp, "channel", channel.id, channel.etag, now)))

\* the writes of seedChannelMetadata after the channel was fetched
seedWrites(t, fp, channel, now) ==
  Await(channelWrites(t, fp, channel, now), LAMBDA t2 :
  Await(snapshotChannel(t2, fp, channel, now), LAMBDA t3 :
  saveEtag(t3, fp, "channel", channel.id, channel.etag, now)))

seedChannelMetadata(t, fp, u, channelId, now) ==
  Await(Request(t, fp, "fetchChannelById"), LAMBDA t1 :
  Await(fetchChannelById(u, channelId), LAMBDA channel :
    IF ~Ok(t1) THEN [t |-> t1, channelId |-> channelId, customUrl |-> NULL]
    ELSE IF ~channel.found
    THEN [t |-> Throw(t1, "CHANNEL_NOT_FOUND"), channelId |-> channelId,
          customUrl |-> NULL]
    ELSE [t |-> seedWrites(t1, fp, channel, now), channelId |-> channel.id,
          customUrl |-> channel.customUrl]))

\* the callback subscribeChannel runs inside runInTransaction
subscribeCallback(d, u, channelId, userId, fp, now) ==
  Await(Select(Begin(d, fp), fp, "getChannelById"), LAMBDA t1 :
  Await(getChannelById(t1.db, channelId), LAMBDA existing :
  Await(IF ~Ok(t1) THEN [t |-> t1, channelId |-> channelId, customUrl |-> NULL]
        ELSE IF existing = {}
        THEN seedChannelMetadata(t1, fp, u, channelId, now)
        ELSE LET existingChannel == CHOOSE r \in existing : TRUE
             IN [t |-> t1, channelId |-> existingChannel.id,
                 customUrl |-> existingChannel.customUrl], LAMBDA seeded :
  Await({r \in seeded.t.db.subs :
           r.userId = userId /\ r.channelId = seeded.channelId},
        LAMBDA present :
  Await(Query(seeded.t, fp, "subscribeUserToChannel",
              subscribeUserToChannel(seeded.t.db, userId, seeded.channelId,
                                                seeded.customUrl),
              IF present = {} THEN {<<"subs", userId, seeded.channelId>>}
              ELSE {}), LAMBDA t3 :
    [t |-> t3, channelId |-> seeded.channelId,
     subscribed |-> Ok(t3) /\ present = {},
     syncScheduled |-> Ok(t3) /\ existing = {}])))))

\* a check that never finds the stored tag
hasResourceChangedAlways(t, resourceType, resourceId, latestEtag) == TRUE

\* !latestEtag holds for null and for the empty string
hasResourceChanged(t, resourceType, resourceId, latestEtag) ==
  IF latestEtag \in {NULL, ""} THEN TRUE
  ELSE LET existing == getEtag(t.db, resourceType, resourceId)
       IN existing = {} \/ (CHOOSE r \in existing : TRUE).etag # latestEtag

\* the SELECT of hasResourceChanged, issued only for a non-null tag
etagLookup(t, fp, latestEtag) ==
  IF latestEtag \in {NULL, ""} THEN t ELSE Select(t, fp, "getEtag")

\* a syncTopCommentForVideo without the try/catch: the failed fetch throws
syncTopCommentForVideoThrowing(t, fp, video, timestamp) ==
  Await(fetchTopCommentByVideo(CommentPagesOf(video.id), video.channelId),
        LAMBDA found :
  Await(Request(t, fp, "fetchTopCommentByVideo"), LAMBDA t1 :
    IF ~Ok(t1) \/ ~found.found THEN t1
    ELSE Query(t1, fp, "upsertVideoTopComment",
               upsertVideoTopComment(t1.db, [videoId |-> video.id,
                                channelId |-> video.channelId,
                                authorChannelId |-> found.author]),
               {<<"topComments", video.id>>})))

\* syncTopCommentForVideo: a failed fetch is logged and swallowed
syncTopCommentForVideo(t, fp, video, timestamp) ==
  Await(fetchTopCommentByVideo(CommentPagesOf(video.id), video.channelId),
        LAMBDA found :
  Await(IF ~Ok(t) THEN t
        ELSE IF fp = "fetchTopCommentByVideo"
        THEN [t EXCEPT !.calls = @ + 1, !.warned = @ \cup {video.id}]
        ELSE [t EXCEPT !.calls = @ + found.requests], LAMBDA t1 :
    IF ~Ok(t) \/ fp = "fetchTopCommentByVideo" \/ ~found.found THEN t1
    ELSE Query(t1, fp, "upsertVideoTopComment",
               upsertVideoTopComment(t1.db, [videoId |-> video.id,
                                channelId |-> video.channelId,
                                authorChannelId |-> found.author]),
               {<<"topComments", video.id>>})))

VideoRow(video, playlistMap, timestamp) ==
  Await(parseIso8601DurationToSeconds(video.duration), LAMBDA durationSeconds :
    [id |-> video.id, channelId |-> video.channelId,
     playlistId |-> IF video.id \in DOMAIN playlistMap
                    THEN playlistMap[video.id] ELSE NULL,
     content |-> video.content, duration |-> video.duration,
     durationSeconds |-> durationSeconds,
     isShort |-> <<isShortOf(durationSeconds)>>,
     shortRuleVersion |-> ShortRuleVersion])

\* persistVideos, the branch of a changed video
writeVideo(t, fp, video, row, timestamp) ==
  Await(Query(t, fp, "upsertVideo", upsertVideo(t.db, row),
              {<<"videos", video.id>>}), LAMBDA t2 :
  Await(Query(t2, fp, "upsertVideoStatistics",
              upsertVideoStatistics(t2.db, [videoId |-> video.id,
                               viewCount |-> video.viewCount]),
              {<<"videoStats", video.id>>}), LAMBDA t3 :
  Await(syncTopCommentForVideo(t3, fp, video, timestamp), LAMBDA t4 :
  saveEtag(t4, fp, "video", video.id, video.etag, timestamp))))

\* an unchanged video written with the full upsert
reconcileVideoByUpsert(t, fp, video, row) ==
  Query(t, fp, "upsertVideo", upsertVideo(t.db, row), {<<"videos", video.id>>})

\* persistVideos, the branch of an unchanged video
reconcileVideo(t, fp, video, row) ==
  Await([videoId |-> video.id, duration |-> row.duration,
         durationSeconds |-> row.durationSeconds, isShort |-> row.isShort,
         shortRuleVersion |-> row.shortRuleVersion], LAMBDA input :
  Query(t, fp, "updateVideoShortMetadata",
        updateVideoShortMetadata(t.db, input),
        IF Ok(t) /\ ShortMetadataTargets(t.db, input) # {}
        THEN {<<"videos", video.id>>} ELSE {}))

\* a snapshot only of a video whose current rows this run has written
snapshotVideoIfWritten(t, fp, video, timestamp) ==
  IF <<"videoStats", video.id>> \in t.writes
  THEN Query(t, fp, "upsertVideoStatisticsDailySnapshot",
             upsertVideoStatisticsDailySnapshot(t.db, [videoId |-> video.id,
                              channelId |-> video.channelId,
                              snapshotDate |-> timestamp,
                              viewCount |-> video.viewCount]),
             {<<"videoDaily", video.id>>})
  ELSE t

\* persistVideos, after either branch: the daily snapshot of the video
snapshotVideo(t, fp, video, timestamp) ==
  Query(t, fp, "upsertVideoStatisticsDailySnapshot",
        upsertVideoStatisticsDailySnapshot(t.db, [videoId |-> video.id,
                         channelId |-> video.channelId,
                         snapshotDate |-> timestamp,
                         viewCount |-> video.viewCount]),
        {<<"videoDaily", video.id>>})

\* one iteration of the loop of persistVideos; s = [t, processed]
persistVideo(s, fp, video, playlistMap, timestamp) ==
  IF ~Ok(s.t) THEN s
  ELSE
  Await(VideoRow(video, playlistMap, timestamp), LAMBDA row :
  Await(etagLookup(s.t, fp, video.etag), LAMBDA t1 :
  Await(hasResourceChanged(t1, "video", video.id, video.etag),
        LAMBDA videoChanged :
  Await(IF videoChanged THEN writeVideo(t1, fp, video, row, timestamp)
        ELSE reconcileVideo(t1, fp, video, row), LAMBDA t7 :
  Await(snapshotVideo(t7, fp, video, timestamp), LAMBDA t8 :
    [t |-> t8,
     processed |-> s.processed + (IF videoChanged /\ Ok(t7) THEN 1 ELSE 0)])))))

RECURSIVE persistVideos(_, _, _, _, _)
persistVideos(s, fp, videos, playlistMap, timestamp) ==
  IF videos = << >> THEN s
  ELSE persistVideos(persistVideo(s, fp, Head(videos), playlistMap, timestamp),
                     fp, Tail(videos), playlistMap, timestamp)

\* videoPlaylistMap.set(videoId, playlistId) without the has() test: the
\* last playlist wins
RECURSIVE mapPlaylistVideosOverwrite(_, _, _)
mapPlaylistVideosOverwrite(m, playlistId, videoIds) ==
  IF videoIds = << >> THEN m
  ELSE LET videoId == Head(videoIds)
       IN mapPlaylistVideosOverwrite(
            [map |-> [v \in DOMAIN m.map \cup {videoId} |->
                        IF v = videoId THEN playlistId ELSE m.map[v]],
             keys |-> IF videoId \in DOMAIN m.map THEN m.keys
                      ELSE Append(m.keys, videoId)],
            playlistId, Tail(videoIds))

\* videoPlaylistMap.set(videoId, playlistId) unless the map has the key;
\* m = [map, keys]: the map and its keys in insertion order
RECURSIVE mapPlaylistVideos(_, _, _)
mapPlaylistVideos(m, playlistId, videoIds) ==
  IF videoIds = << >> THEN m
  ELSE LET videoId == Head(videoIds)
       IN mapPlaylistVideos(
            IF videoId \in DOMAIN m.map THEN m
            ELSE [map |-> m.map @@ (videoId :> playlistId),
                  keys |-> Append(m.keys, videoId)],
            playlistId, Tail(videoIds))

\* one iteration of the playlist loop; s = [t, m, processed]
syncPlaylist(s, fp, playlist, now) ==
  Await(etagLookup(s.t, fp, playlist.etag), LAMBDA t1 :
  Await(hasResourceChanged(t1, "playlist", playlist.id, playlist.etag),
        LAMBDA playlistChanged :
    IF ~Ok(t1) \/ ~playlistChanged THEN [s EXCEPT !.t = t1]
    ELSE
    Await(Query(t1, fp, "upsertPlaylist",
                upsertPlaylist(t1.db, [id |-> playlist.id,
                                 channelId |-> playlist.channelId,
                                 content |-> playlist.content]),
                {<<"playlists", playlist.id>>}), LAMBDA t2 :
    Await(saveEtag(t2, fp, "playlist", playlist.id, playlist.etag, now),
          LAMBDA t3 :
    Await(Request(t3, fp, "fetchPlaylistVideoIds"), LAMBDA t4 :
      IF ~Ok(t4) THEN [s EXCEPT !.t = t4]
      ELSE [t |-> t4,
            m |-> mapPlaylistVideos(s.m, playlist.id,
                                    fetchPlaylistVideoIds(playlist.id)),
            processed |-> s.processed + 1])))))

RECURSIVE syncPlaylists(_, _, _, _)
syncPlaylists(s, fp, playlists, now) ==
  IF playlists = << >> THEN s
  ELSE syncPlaylists(syncPlaylist(s, fp, Head(playlists), now), fp,
                     Tail(playlists), now)

\* an array in place of the Set: every id is appended
addAllRepeated(ids, more) == ids \o more

\* uniqueVideoIds.add(videoId) for each id, in order
RECURSIVE addAll(_, _)
addAll(ids, more) ==
  IF more = << >> THEN ids
  ELSE addAll(IF Head(more) \in SeqToSet(ids) THEN ids
              ELSE Append(ids, Head(more)), Tail(more))

\* the ids of uniqueVideoIds: the keys of the map, then the uploads
uniqueVideoIds(keys, uploadsPlaylistId) ==
  IF uploadsPlaylistId # NULL
  THEN addAll(keys, fetchPlaylistVideoIds(uploadsPlaylistId))
  ELSE keys

\* syncChannelData after the channel was fetched and found
syncFetched(t, fp, u, channel, now) ==
  Await(etagLookup(t, fp, channel.etag), LAMBDA t1 :
  Await(hasResourceChanged(t1, "channel", channel.id, channel.etag),
        LAMBDA channelChanged :
  Await(IF Ok(t1) /\ channelChanged
        THEN saveEtag(channelWrites(t1, fp, channel, now), fp, "channel",
                      channel.id, channel.etag, now)
        ELSE t1, LAMBDA t5 :
  Await(snapshotChannel(t5, fp, channel, now), LAMBDA t6 :
  Await(Request(t6, fp, "fetchPlaylistsByChannel"), LAMBDA t7 :
  Await(syncPlaylists([t |-> t7, m |-> [map |-> << >>, keys |-> << >>],
                       processed |-> 0],
                      fp, fetchPlaylistsByChannel(u, channel.id), now),
        LAMBDA pl :
  Await(IF channel.uploadsPlaylistId # NULL
        THEN Request(pl.t, fp, "fetchPlaylistVideoIds") ELSE pl.t, LAMBDA t8 :
  Await(uniqueVideoIds(pl.m.keys, channel.uploadsPlaylistId), LAMBDA videoIds :
  Await(IF videoIds # << >>
        THEN persistVideos([t |-> Request(t8, fp, "fetchVideosByIds"),
                            processed |-> 0], fp,
                           fetchVideosByIds(u, videoIds), pl.m.map, now)
        ELSE [t |-> t8, processed |-> 0], LAMBDA pv :
    [t |-> pv.t, channelId |-> channel.id,
     playlistsProcessed |-> pl.processed, videosProcessed |-> pv.processed,
     videoIds |-> IF Ok(t8) THEN videoIds ELSE << >>,
     playlistMap |-> pl.m.map])))))))))

syncChannelData(t, fp, u, channelId, now) ==
  Await(Request(t, fp, "fetchChannelById"), LAMBDA t1 :
  Await(fetchChannelById(u, channelId), LAMBDA channel :
    IF ~Ok(t1) \/ ~channel.found
    THEN [t |-> IF Ok(t1) THEN Throw(t1, "CHANNEL_NOT_FOUND") ELSE t1,
          channelId |-> channelId, playlistsProcessed |-> 0,
          videosProcessed |-> 0, videoIds |-> << >>, playlistMap |-> << >>]
    ELSE syncFetched(t1, fp, u, channel, now)))

(***************************************************************************)
(* The state machine                                                       *)
(***************************************************************************)
\* the calls that may fail in a run of each operation
SubscribeFailPoints ==
  {"none", "BEGIN", "fetchChannelById", "upsertChannelStatistics",
   "upsertEtag", "subscribeUserToChannel", "COMMIT"}

RefreshFailPoints ==
  {"none", "BEGIN", "fetchChannelById", "upsertChannelStatisticsDailySnapshot",
   "fetchPlaylistVideoIds", "fetchVideosByIds", "upsertVideoStatistics",
   "fetchTopCommentByVideo", "upsertVideoTopComment",
   "upsertVideoStatisticsDailySnapshot", "COMMIT"}

\* the mirror an earlier release of the service left behind: it synchronized
\* "c1" before the derived duration columns and the daily snapshots existed
LegacyDb ==
  LET t == syncChannelData(Begin(EmptyDb, "none"), "none", 0, "c1", 0).t
  IN [t.db EXCEPT
        !.videos = {[r EXCEPT !.durationSeconds = None, !.isShort = None,
                              !.shortRuleVersion = NULL] : r \in @},
        !.channelDaily = {}, !.videoDaily = {}]

NoOp ==
  [op |-> "none", channelId |-> NULL, userId |-> NULL, err |-> "none",
   failed |-> "none", subscribed |-> FALSE, syncScheduled |-> FALSE,
   writes |-> {}, calls |-> 0, warned |-> {}, playlistsProcessed |-> 0,
   videosProcessed |-> 0, videoIds |-> << >>, playlistMap |-> << >>,
   before |-> EmptyDb, queueBefore |-> << >>, prev |-> NULL, again |-> FALSE]

\* what the caller of an operation that threw gets: the error
Failed(op, channelId, userId, done, before, queueBefore) ==
  [NoOp EXCEPT !.op = op, !.channelId = channelId, !.userId = userId,
               !.err = done.err, !.failed = done.failed, !.before = before,
               !.queueBefore = queueBefore]

Idle == last.op = "none"

Init ==
  /\ db \in {EmptyDb, LegacyDb}
  /\ up = 0
  /\ today = 0
  /\ queue = << >>
  /\ last = NoOp
  /\ arg = NULL
  /\ res = NULL

\* a scheduleChannelSync that sets no callback
scheduleNothing(pending, channelId) == pending

\* scheduleChannelSync: setImmediate puts the callback behind the pending ones
scheduleChannelSync(pending, channelId) == Append(pending, channelId)

\* subscribeChannel(channelId, userId)
Subscribe(channelId, userId, fp) ==
  LET r == subscribeCallback(db, up, channelId, userId, fp, today)
      done == runInTransaction(db, r.t, fp)
      scheduled == done.err = "none" /\ r.syncScheduled
  IN /\ Idle
     /\ db' = done.db
     /\ queue' = IF scheduled THEN scheduleChannelSync(queue, r.channelId)
                 ELSE queue
     /\ last' = IF done.err # "none"
                THEN Failed("subscribe", channelId, userId, done, db, queue)
                ELSE [NoOp EXCEPT
                        !.op = "subscribe", !.channelId = r.channelId,
                        !.userId = userId, !.subscribed = r.subscribed,
                        !.syncScheduled = r.syncScheduled,
                        !.writes = r.t.writes, !.calls = r.t.calls,
                        !.failed = done.failed, !.before = db,
                        !.queueBefore = queue]
     /\ UNCHANGED <<up, today, arg, res>>

\* unsubscribeChannel(channelId, userId): one DELETE on the pool
Unsubscribe(channelId, userId) ==
  /\ Idle
  /\ \E r \in db.subs : r.channelId = channelId /\ r.userId = userId
  /\ db' = unsubscribeUserFromChannel(db, userId, channelId)
  /\ last' = NoOp
  /\ UNCHANGED <<up, today, queue, arg, res>>

\* the outcome of runInTransaction((client) => syncChannelData(id, client));
\* again: the operation before this one was a committed run for the same
\* channel and nothing happened in between
syncRun(op, channelId, fp) ==
  LET r == syncChannelData(Begin(db, fp), fp, up, channelId, today)
      done == runInTransaction(db, r.t, fp)
  IN /\ db' = done.db
     /\ last' = IF done.err # "none"
                THEN Failed(op, channelId, NULL, done, db, queue)
                ELSE [NoOp EXCEPT
                        !.op = op, !.channelId = r.channelId,
                        !.writes = r.t.writes, !.calls = r.t.calls,
                        !.warned = r.t.warned,
                        !.playlistsProcessed = r.playlistsProcessed,
                        !.videosProcessed = r.videosProcessed,
                        !.videoIds = r.videoIds,
                        !.playlistMap = r.playlistMap,
                        !.failed = done.failed, !.before = db,
                        !.queueBefore = queue,
                        !.again = (last.prev = channelId)]

\* refreshChannel(channelId), as the scheduled re-sync calls it
Refresh(channelId, fp) ==
  /\ Idle
  /\ syncRun("refresh", channelId, fp)
  /\ UNCHANGED <<up, today, queue, arg, res>>

\* the setImmediate callback of scheduleChannelSync
DeferredRefresh(fp) ==
  /\ Idle
  /\ queue # << >>
  /\ syncRun("deferred", Head(queue), fp)
  /\ queue' = Tail(queue)
  /\ UNCHANGED <<up, today, arg, res>>

Synced == last.op \in {"refresh", "deferred"} /\ last.err = "none"

\* the operation's result has been handed to its caller
Return ==
  /\ ~Idle
  /\ last' = [NoOp EXCEPT !.prev = IF Synced THEN last.channelId ELSE NULL]
  /\ UNCHANGED <<db, up, today, queue, arg, res>>

\* the platform publishes its next revision
Revise ==
  /\ Idle
  /\ up + today < MaxTime
  /\ Timeline[up + today + 1] = "revision"
  /\ up' = up + 1
  /\ last' = NoOp
  /\ UNCHANGED <<db, today, queue, arg, res>>

\* midnight UTC passes
Tick ==
  /\ Idle
  /\ up + today < MaxTime
  /\ Timeline[up + today + 1] = "midnight"
  /\ today' = today + 1
  /\ last' = NoOp
  /\ UNCHANGED <<db, up, queue, arg, res>>

Next ==
  \/ \E c \in Channels, u \in Users, fp \in SubscribeFailPoints :
       Subscribe(c, u, fp)
  \/ \E c \in Channels, u \in Users : Unsubscribe(c, u)
  \/ \E c \in Channels, fp \in RefreshFailPoints : Refresh(c, fp)
  \/ \E fp \in RefreshFailPoints : DeferredRefresh(fp)
  \/ Return
  \/ Revise
  \/ Tick

Spec == Init /\ [][Next]_vars

(***************************************************************************)
(* Properties.  In a state that follows an operation, last holds what the  *)
(* operation returned, last.before and last.queueBefore the store and the  *)
(* pending callbacks it started from.                                      *)
(***************************************************************************)
Subscribed == last.op = "subscribe" /\ last.err = "none"

ChannelRows(d, c) == {r \in d.channels : r.id = c}
StatisticsRows(d, c) == {r \in d.channelStats : r.channelId = c}
Memberships(d, u, c) == {r \in d.subs : r.userId = u /\ r.channelId = c}
PlaylistRows(d, c) == {r \in d.playlists : r.channelId = c}
VideoRows(d, c) == {r \in d.videos : r.channelId = c}

\* Subscribe has just committed for a channel that had no channel row
SeededNow == Subscribed /\ ChannelRows(last.before, last.channelId) = {}
\* Subscribe has just committed for a channel that had its channel row
SubscribedExisting == Subscribed /\ ChannelRows(last.before, last.channelId) # {}

C1_AfterSeed ==
  SeededNow =>
    /\ Cardinality(ChannelRows(db, last.channelId)) = 1
    /\ Cardinality(StatisticsRows(db, last.channelId)) = 1
    /\ Cardinality(Memberships(db, last.userId, last.channelId)) = 1
    /\ last.syncScheduled
    /\ queue = Append(last.queueBefore, last.channelId)
    /\ PlaylistRows(db, last.channelId) = {}
    /\ db.playlists = last.before.playlists
    /\ db.videos = last.before.videos

C1_OnlyRefreshWrites ==
  (db'.playlists # db.playlists \/ db'.videos # db.videos) => Synced'

\* C1 (amended): Subscribe on a channel id that has no channel row leaves
\* exactly one channel row, one channel-statistics row and one membership
\* row for it, returns syncScheduled = true and schedules the deferred
\* Refresh; it writes no playlist or video row itself (no playlist row of the
\* channel exists and the video table is as before the call), and the
\* playlist and video tables change only in a step that commits a Refresh,
\* the deferred one or any other.
C1_SeedThenRefreshWrites == []C1_AfterSeed /\ [][C1_OnlyRefreshWrites]_vars

C1_Witness == SeededNow /\ last.channelId = "c1" /\ queue = <<"c1">>

\* C1 as stated: while the deferred Refresh of a seeded channel has not run,
\* no playlist or video row of that channel exists.
C1_AbsentUntilDeferredRefresh ==
  \A c \in SeqToSet(queue) : PlaylistRows(db, c) = {} /\ VideoRows(db, c) = {}

C2_AfterSubscribe ==
  SubscribedExisting =>
    LET was == Memberships(last.before, last.userId, last.channelId)
        is == Memberships(db, last.userId, last.channelId)
    IN /\ last.calls = 0
       /\ \A w \in last.writes : w[1] = "subs"
       /\ db.channels = last.before.channels
       /\ db.channelStats = last.before.channelStats
       /\ db.channelDaily = last.before.channelDaily
       /\ db.videoDaily = last.before.videoDaily
       /\ db.etags = last.before.etags
       /\ ~last.syncScheduled
       /\ queue = last.queueBefore
       /\ last.subscribed <=> was = {}
       /\ IF was = {}
          THEN Cardinality(is) = 1 /\ db.subs \ is = last.before.subs
          ELSE db.subs = last.before.subs

C2_OneMembership ==
  \A r1, r2 \in db.subs :
    r1.userId = r2.userId /\ r1.channelId = r2.channelId => r1 = r2

\* C2: Subscribe on a channel id whose channel row exists sends no request
\* to the platform, writes nothing to the channel, statistics, snapshot and
\* change-cache tables, returns syncScheduled = false and schedules no
\* deferred Refresh; the membership row is created if absent and left as it
\* is if present, `subscribed` is true exactly when it was created, and no
\* (user, channel) ever has two membership rows.
C2_ExistingChannelOnlyMembership == C2_AfterSubscribe /\ C2_OneMembership

\* the membership row was there, with the handle the channel had back then
C2_Witness ==
  /\ SubscribedExisting
  /\ ~last.subscribed
  /\ \E m \in Memberships(db, last.userId, last.channelId) :
       \E r \in ChannelRows(db, last.channelId) : m.customUrl # r.customUrl

\* C3: Subscribe is atomic.  When a step fails (the channel is not found, a
\* request or a statement throws, COMMIT throws) the caller gets the error,
\* the store is what it was before the call, and no deferred Refresh is
\* scheduled; for a channel that had no channel row, the seed rows and the
\* membership row are committed together or not at all.
C3_SubscribeAtomic ==
  last.op = "subscribe" =>
    /\ last.failed # "none" => last.err # "none"
    /\ last.err # "none" => db = last.before /\ queue = last.queueBefore
    /\ ChannelRows(last.before, last.channelId) = {} =>
         /\ ChannelRows(db, last.channelId) = {}
              <=> Memberships(db, last.userId, last.channelId) = {}
         /\ ChannelRows(db, last.channelId) = {}
              <=> StatisticsRows(db, last.channelId) = {}
         /\ ChannelRows(db, last.channelId) = {} <=> last.err # "none"

\* the membership statement failed after the seed rows were written
C3_Witness ==
  /\ last.op = "subscribe"
  /\ last.failed = "subscribeUserToChannel"
  /\ last.channelId = "c1"
  /\ ChannelRows(last.before, "c1") = {}

\* the revision tag the platform sends for resource x in this run
Tag(x) == EtagOf(x, RevOf(up, x))
StoredTags(d, x) == {r.etag : r \in {e \in d.etags : e.resourceId = x}}
\* x came with the tag the change cache held for it before the run
SameTag(x) == Tag(x) # NULL /\ Tag(x) \in StoredTags(last.before, x)
Wrote(table, key) == <<table, key>> \in last.writes

\* the playlists and the videos of the Refresh that has just committed
RunPlaylists == SeqToSet(PlaylistsOf(last.channelId))
RunVideos == SeqToSet(last.videoIds)
RunResources == {last.channelId} \cup RunPlaylists \cup RunVideos
ChangedPlaylists == {p \in RunPlaylists : ~SameTag(p)}
Members(ps) == UNION {SeqToSet(ItemsOf(p)) : p \in ps}
Uploads == SeqToSet(ItemsOf(UploadsOf(last.channelId)))

\* the current-state and change-cache rows of resource x
RowsAbout(d, x) ==
  [channels |-> {r \in d.channels : r.id = x},
   channelStats |-> {r \in d.channelStats : r.channelId = x},
   playlists |-> {r \in d.playlists : r.id = x},
   videoStats |-> {r \in d.videoStats : r.videoId = x},
   etags |-> {r \in d.etags : r.resourceId = x}]
VideoById(d, x) == {r \in d.videos : r.id = x}
\* a video row without the columns updateVideoShortMetadata sets
Underived(r) ==
  [id |-> r.id, channelId |-> r.channelId, playlistId |-> r.playlistId,
   content |-> r.content]
Derived(r) ==
  [duration |-> r.duration, durationSeconds |-> r.durationSeconds,
   isShort |-> r.isShort, shortRuleVersion |-> r.shortRuleVersion]

\* C4 as stated: in a committed Refresh, a channel, playlist or video whose
\* stored tag is non-null and equal to the fetched tag gets no write to its
\* current-state tables and no write to its change-cache entry.
C4_NoWriteWhenTagUnchanged ==
  Synced =>
    \A x \in RunResources :
      SameTag(x) =>
        \A tb \in {"channels", "channelStats", "playlists", "videos",
                   "videoStats", "etags"} : ~Wrote(tb, x)

\* C4 (amended): in a committed Refresh, a channel, playlist or video whose
\* stored tag is non-null and equal to the fetched tag gets no write to
\* channels, channel_statistics, playlists, video_statistics or its
\* change-cache entry; its videos row is written only to set the derived
\* duration columns, and only when one of them differs from the value
\* derived in this run; every other column of the row stays.
C4_OnlyDerivedColumnsWhenTagUnchanged ==
  Synced =>
    \A x \in RunResources :
      SameTag(x) =>
        /\ \A tb \in {"channels", "channelStats", "playlists", "videoStats",
                      "etags"} : ~Wrote(tb, x)
        /\ RowsAbout(db, x) = RowsAbout(last.before, x)
        /\ {Underived(r) : r \in VideoById(db, x)}
             = {Underived(r) : r \in VideoById(last.before, x)}
        /\ Wrote("videos", x)
             <=> {Derived(r) : r \in VideoById(db, x)}
                   # {Derived(r) : r \in VideoById(last.before, x)}

\* channel, playlist and videos kept their tags; the rows of the videos,
\* written by the earlier release, had their derived columns set
C4_Witness ==
  /\ Synced
  /\ SameTag(last.channelId)
  /\ \E p \in RunPlaylists : SameTag(p)
  /\ \E v \in RunVideos : SameTag(v) /\ Wrote("videos", v)

Ids(rows) == {r.id : r \in rows}
VideoIdsOf(rows) == {r.videoId : r \in rows}

\* the second of two runs of Refresh adds no row to these tables
C5_NoRowAdded ==
  /\ Ids(db.channels) = Ids(last.before.channels)
  /\ Cardinality(db.channels) = Cardinality(last.before.channels)
  /\ Cardinality(db.channelStats) = Cardinality(last.before.channelStats)
  /\ Ids(db.playlists) = Ids(last.before.playlists)
  /\ Cardinality(db.playlists) = Cardinality(last.before.playlists)
  /\ Ids(db.videos) = Ids(last.before.videos)
  /\ Cardinality(db.videos) = Cardinality(last.before.videos)
  /\ VideoIdsOf(db.videoStats) = VideoIdsOf(last.before.videoStats)
  /\ Cardinality(db.videoStats) = Cardinality(last.before.videoStats)
  /\ {<<r.resourceType, r.resourceId>> : r \in db.etags}
       = {<<r.resourceType, r.resourceId>> : r \in last.before.etags}
  /\ Cardinality(db.etags) = Cardinality(last.before.etags)

\* one snapshot row per (entity, date); today's rows hold this run's counters
C5_SnapshotOverwritten ==
  /\ \A r1, r2 \in db.channelDaily :
       r1.channelId = r2.channelId /\ r1.snapshotDate = r2.snapshotDate
         => r1 = r2
  /\ \A r1, r2 \in db.videoDaily :
       r1.videoId = r2.videoId /\ r1.snapshotDate = r2.snapshotDate => r1 = r2
  /\ \E r \in db.channelDaily :
       /\ r.channelId = last.channelId /\ r.snapshotDate = today
       /\ r.viewCount = RevOf(up, last.channelId)
  /\ \A v \in RunVideos :
       \E r \in db.videoDaily :
         r.videoId = v /\ r.snapshotDate = today /\ r.viewCount = RevOf(up, v)

\* C5 as stated: a Refresh that runs right after a committed Refresh of the
\* same channel, with no upstream change in between, adds no current-state
\* row (channels, statistics, playlists, videos, top comments, change-cache
\* entries) and leaves one snapshot row per (entity, date), overwritten.
C5_SecondRunAddsNoRow ==
  Synced /\ last.again =>
    /\ C5_NoRowAdded
    /\ VideoIdsOf(db.topComments) = VideoIdsOf(last.before.topComments)
    /\ C5_SnapshotOverwritten

\* C5 (amended): such a second Refresh adds no channel, statistics,
\* playlist, video, video-statistics or change-cache row and leaves one
\* snapshot row per (entity, date), overwritten; it adds a top-comment row
\* only for a video that comes without a revision tag (such a video is
\* written again in every run, so a top comment the first run could not
\* fetch is stored by the second), and never a second row for a video.
C5_SecondRunAddsOnlyMissedTopComment ==
  Synced /\ last.again =>
    /\ C5_NoRowAdded
    /\ \A v \in VideoIdsOf(db.topComments)
                  \ VideoIdsOf(last.before.topComments) : Tag(v) = NULL
    /\ VideoIdsOf(last.before.topComments) \subseteq VideoIdsOf(db.topComments)
    /\ Cardinality(db.topComments) = Cardinality(VideoIdsOf(db.topComments))
    /\ C5_SnapshotOverwritten

\* the second run rewrote a video and found every playlist unchanged
C5_Witness ==
  /\ Synced /\ last.again
  /\ ChangedPlaylists = {}
  /\ \E v \in RunVideos : Wrote("videos", v) /\ Wrote("videoDaily", v)
  /\ \E v \in RunVideos : SameTag(v)

NoDuplicates(seq) == Cardinality(SeqToSet(seq)) = Len(seq)

FirstHolding(v, ps) ==
  LET all == PlaylistsOf(last.channelId)
      at == {i \in DOMAIN all : all[i] \in ps /\ v \in SeqToSet(ItemsOf(all[i]))}
  IN all[CHOOSE i \in at : \A j \in at : i <= j]

MaxUnits == 4

\* the pieces a contentDetails.duration is written with
DurationUnits ==
  {<<"P">>, <<"T">>, <<" ">>, <<"1", "D">>, <<"1", "h">>, <<"2", "M">>,
   <<"3", "M">>, <<"5", "9", "S">>, <<"1", "S">>, <<"0", ".", "4", "S">>,
   <<"0", ".", "5", "S">>}

\* a duration text, piece by piece; << >> is an absent duration
DurationTexts == UNION {[1..n -> DurationUnits] : n \in 0..MaxUnits}

\* the characters of a duration text
RECURSIVE Flatten(_)
Flatten(units) ==
  IF units = << >> THEN << >> ELSE Head(units) \o Flatten(Tail(units))

\* the item videos.list returns for video "A" when its duration is `units`
FetchedVideo(units) ==
  [fetchVideosByIds(0, <<"A">>)[1] EXCEPT !.duration = Flatten(units)]

\* the row and the tag of `video` as the earlier release stored them
LegacyVideoDb(video) ==
  upsertEtag(
    upsertVideo(EmptyDb, [VideoRow(video, << >>, 0) EXCEPT
                            !.durationSeconds = None, !.isShort = None,
                            !.shortRuleVersion = NULL]),
    [resourceType |-> "video", resourceId |-> video.id, etag |-> video.etag])

InitDuration ==
  /\ arg \in DurationTexts
  /\ db \in {EmptyDb, LegacyVideoDb(FetchedVideo(arg))}
  /\ up = 0
  /\ today = 0
  /\ queue = << >>
  /\ last = NoOp
  /\ res = None

\* persistVideos([video], videoPlaylistMap, now, client) in its transaction
PersistVideos ==
  LET s == persistVideos([t |-> Begin(db, "none"), processed |-> 0], "none",
                         <<FetchedVideo(arg)>>, << >>, today)
      done == runInTransaction(db, s.t, "none")
  IN /\ res = None
     /\ db' = done.db
     /\ res' = <<[videosProcessed |-> s.processed, writes |-> s.t.writes]>>
     /\ UNCHANGED <<up, today, queue, last, arg>>

NextDuration == PersistVideos

SpecDuration == InitDuration /\ [][NextDuration]_vars

(***************************************************************************)
(* fetchTopCommentByVideo on every paging of a video's comment threads     *)
(***************************************************************************)
MaxThreads == 3

\* a thread by its author; the video's own channel is "X"
ThreadItems == {"X", "Y", "Z", NULL, NoSnippet}
ThreadLists == UNION {[1..n -> ThreadItems] : n \in 0..MaxThreads}

\* the k-th smallest of the cuts
NthCut(cuts, k) ==
  CHOOSE c \in cuts : Cardinality({d \in cuts : d < c}) = k - 1

\* the responses of commentThreads.list: a page ends after each thread
\* named in cuts (0: the first page is empty); every page but the last
\* carries a nextPageToken
CommentPages(threads, cuts) ==
  [k \in 1..(Cardinality(cuts) + 1) |->
     SubSeq(threads,
            IF k = 1 THEN 1 ELSE NthCut(cuts, k - 1) + 1,
            IF k = Cardinality(cuts) + 1 THEN Len(threads)
            ELSE NthCut(cuts, k))]

InitTopComment ==
  /\ \E threads \in ThreadLists :
       \E cuts \in SUBSET (0..Len(threads)) :
         \E excludeChannelId \in {"X", NULL} :
           arg = [threads |-> threads, cuts |-> cuts,
                  excludeChannelId |-> excludeChannelId]
  /\ db = EmptyDb
  /\ up = 0
  /\ today = 0
  /\ queue = << >>
  /\ last = NoOp
  /\ res = None

\* fetchTopCommentByVideo(videoId, { excludeChannelId })
FetchTopComment ==
  /\ res = None
  /\ res' = <<fetchTopCommentByVideo(CommentPages(arg.threads, arg.cuts),
                                     arg.excludeChannelId)>>
  /\ UNCHANGED <<db, up, today, queue, last, arg>>

NextTopComment == FetchTopComment

SpecTopComment == InitTopComment /\ [][NextTopComment]_vars

(***************************************************************************)
(* Properties of the duration classification.  A duration text is read     *)
(* piece by piece, in tenths of a second.                                  *)
(***************************************************************************)
\* the place of a piece in PnDTnHnMnS
Rank(unit) ==
  CASE unit = <<"P">> -> 0
    [] unit = <<"1", "D">> -> 1
    [] unit = <<"T">> -> 2
    [] unit = <<"1", "h">> -> 3
    [] unit \in {<<"2", "M">>, <<"3", "M">>} -> 4
    [] unit = <<" ">> -> 9
    [] OTHER -> 5

Tenths(unit) ==
  CASE unit = <<"1", "D">> -> 864000
    [] unit = <<"1", "h">> -> 36000
    [] unit = <<"2", "M">> -> 1200
    [] unit = <<"3", "M">> -> 1800
    [] unit = <<"5", "9", "S">> -> 590
    [] unit = <<"1", "S">> -> 10
    [] unit = <<"0", ".", "4", "S">> -> 4
    [] unit = <<"0", ".", "5", "S">> -> 5
    [] OTHER -> 0

\* the pieces that are not white space
Core(units) == {i \in DOMAIN units : units[i] # <<" ">>}

\* the text is P, then the day piece, then T and the time pieces in order,
\* with white space around it only
Parseable(units) ==
  /\ \E i \in Core(units) : units[i] = <<"P">>
  /\ \A i \in DOMAIN units :
       (\E j, k \in Core(units) : j < i /\ i < k) => i \in Core(units)
  /\ \A i, j \in Core(units) : i < j => Rank(units[i]) < Rank(units[j])
  /\ (\E i \in Core(units) : Rank(units[i]) >= 3)
       => \E i \in Core(units) : units[i] = <<"T">>

RECURSIVE TotalTenths(_)
TotalTenths(units) ==
  IF units = << >> THEN 0 ELSE Tenths(Head(units)) + TotalTenths(Tail(units))

\* the total in whole seconds, half a second and more rounded up
RoundedSeconds(units) == (TotalTenths(units) + 5) \div 10

Persisted == res # None
PT2M59S == <<<<"P">>, <<"T">>, <<"2", "M">>, <<"5", "9", "S">>>>
PT3M1S == <<<<"P">>, <<"T">>, <<"3", "M">>, <<"1", "S">>>>
PT3M04S == <<<<"P">>, <<"T">>, <<"3", "M">>, <<"0", ".", "4", "S">>>>

\* C9 as stated: for every video written by Refresh, is-short is true
\* exactly when the duration parses and its total is at most 180 seconds,
\* an unparseable or absent duration gives is-short = false and null
\* seconds, and the derived seconds of a parseable duration equal
\* days*86400 + hours*3600 + minutes*60 + seconds.
C9_ShortIffTotalWithinLimit ==
  Persisted =>
    /\ \E r \in db.videos : r.id = "A"
    /\ \A r \in db.videos :
         /\ r.isShort = <<Parseable(arg) /\ TotalTenths(arg) <= 1800>>
         /\ ~Parseable(arg) => r.durationSeconds = None
         /\ Parseable(arg) =>
              /\ r.durationSeconds # None
              /\ 10 * r.durationSeconds[1] = TotalTenths(arg)

\* C9 (amended): for every video written by Refresh, the derived seconds of
\* a parseable duration are days*86400 + hours*3600 + minutes*60 + seconds
\* rounded to the nearest whole second (half a second rounds up), is-short
\* is true exactly when the duration parses and the rounded total is at
\* most 180 (PT2M59S: 179, true; PT3M1S: 181, false), and an unparseable or
\* absent duration gives is-short = false with null seconds; the row keeps
\* the duration text and carries the rule version.
C9_ShortIffRoundedTotalWithinLimit ==
  Persisted =>
    /\ \E r \in db.videos : r.id = "A"
    /\ \A r \in db.videos :
         /\ r.duration = Flatten(arg)
         /\ r.shortRuleVersion = "v1_180s"
         /\ IF Parseable(arg)
            THEN /\ r.durationSeconds = <<RoundedSeconds(arg)>>
                 /\ r.isShort = <<RoundedSeconds(arg) <= 180>>
            ELSE /\ r.durationSeconds = None
                 /\ r.isShort = <<FALSE>>
         /\ arg = PT2M59S => r.durationSeconds = <<179>> /\ r.isShort = <<TRUE>>
         /\ arg = PT3M1S => r.durationSeconds = <<181>> /\ r.isShort = <<FALSE>>

\* a video of 180.4 seconds has been written: 180 derived seconds, short
C9_Witness ==
  /\ Persisted
  /\ arg = PT3M04S
  /\ <<"videos", "A">> \in res[1].writes
  /\ \E r \in db.videos :
       r.id = "A" /\ r.durationSeconds = <<180>> /\ r.isShort = <<TRUE>>

(***************************************************************************)
(* Properties of the top-comment selection                                 *)
(***************************************************************************)
Fetched == res # None

\* the threads that carry a comment not written by the excluded channel
Eligible(a) ==
  {i \in DOMAIN a.threads :
     /\ a.threads[i] # NoSnippet
     /\ a.excludeChannelId = NULL \/ a.threads[i] # a.excludeChannelId}

\* the page that holds thread i
PageOfThread(a, i) == 1 + Cardinality({c \in a.cuts : c < i})

\* C10: fetchTopCommentByVideo returns the first comment thread, in page
\* order and relevance order within a page, whose author channel id is not
\* excludeChannelId (X, Y, Z with X the video's own channel give Y's),
\* requests no page after the one that holds it, and returns null only
\* after every page was requested and none held an eligible thread.
C10_FirstEligibleThread ==
  Fetched =>
    /\ IF Eligible(arg) = {}
       THEN /\ ~res[1].found
            /\ res[1].author = NULL
            /\ res[1].requests = 1 + Cardinality(arg.cuts)
       ELSE LET first == CHOOSE i \in Eligible(arg) :
                           \A j \in Eligible(arg) : i <= j
            IN /\ res[1].found
               /\ res[1].author = arg.threads[first]
               /\ res[1].requests = PageOfThread(arg, first)
    /\ arg.threads = <<"X", "Y", "Z">> /\ arg.excludeChannelId = "X"
         => res[1].found /\ res[1].author = "Y"

\* X alone on the first page, Y and Z on the second: Y's thread is
\* returned after two requests
C10_Witness ==
  /\ Fetched
  /\ arg.threads = <<"X", "Y", "Z">>
  /\ arg.cuts = {1}
  /\ arg.excludeChannelId = "X"
  /\ res[1] = [found |-> TRUE, author |-> "Y", requests |-> 2]

(***************************************************************************)
(* Properties of the failure handling of Refresh                           *)
(***************************************************************************)
Ran == last.op \in {"refresh", "deferred"}
ChangedVideos == {v \in RunVideos : ~SameTag(v)}
TopCommentsOf(d, v) == {r \in d.topComments : r.videoId = v}

\* what a run in which the top-comment fetch of its changed videos failed
\* leaves behind
C11_FetchFailureIsolated ==
  Ran /\ last.warned # {} =>
    /\ last.err = "none"
    /\ last.warned = ChangedVideos
    /\ last.videosProcessed = Cardinality(ChangedVideos)
    /\ \A v \in last.warned :
         /\ Wrote("videos", v) /\ Wrote("videoStats", v) /\ Wrote("etags", v)
         /\ \E r \in VideoById(db, v) : r.content = RevOf(up, v)
         /\ \E r \in db.videoStats :
              r.videoId = v /\ r.viewCount = RevOf(up, v)
         /\ StoredTags(db, v) = {Tag(v)}
         /\ TopCommentsOf(db, v) = TopCommentsOf(last.before, v)
    /\ \A v \in RunVideos : Wrote("videoDaily", v)

\* C11 as stated: when the top-comment step (the fetch of the top comment
\* or the write of its row) fails for a changed video, the Refresh does not
\* abort: the video's rows and tag are written, its top-comment row stays,
\* the other videos are processed and the counter includes the video.
C11_TopCommentStepNeverAborts ==
  /\ C11_FetchFailureIsolated
  /\ Ran => last.failed \notin {"fetchTopCommentByVideo", "upsertVideoTopComment"}

\* C11 (amended): when the fetch of the top comment fails for a changed
\* video, the Refresh does not abort and the failure does not reach the
\* caller: the video's row, statistics row and change-cache entry are
\* written, its existing top-comment row stays as it was, every video of the
\* run is processed and the counter includes the video.  A failure of the
\* statement that writes the top-comment row is not isolated: it aborts the
\* run, which commits nothing.
C11_TopCommentFetchNeverAborts ==
  /\ C11_FetchFailureIsolated
  /\ Ran => last.failed # "fetchTopCommentByVideo"
  /\ Ran /\ last.failed = "upsertVideoTopComment" =>
       last.err # "none" /\ db = last.before

\* the fetch failed for B, whose top-comment row an earlier run had stored
C11_Witness ==
  /\ Ran /\ last.err = "none"
  /\ "B" \in last.warned
  /\ TopCommentsOf(db, "B") # {}
  /\ Cardinality(last.warned) > 1

\* C12: Refresh is all-or-nothing.  When a step of the run throws (the
\* channel is not found, a request to the platform fails, a statement or
\* BEGIN or COMMIT fails) the error is what the run ends with (returned to
\* the caller of refreshChannel, logged by the deferred run) and every table
\* is exactly as before the run; a run without error has written every
\* resource whose tag check reported a change, so no run ends with a part
\* of its resources written.  The deferred run leaves the queue, failed or
\* not, and is not tried again.
C12_RefreshAllOrNothing ==
  Ran =>
    /\ last.failed # "none" => last.err # "none"
    /\ last.channelId \notin UpChannels => last.err # "none"
    /\ last.err # "none" => db = last.before
    /\ last.err = "none" =>
         /\ last.writes # {}
         /\ \A x \in RunResources :
              ~SameTag(x) => Wrote("etags", x) /\ StoredTags(db, x) = {Tag(x)}
         /\ \A v \in ChangedVideos :
              \E r \in db.videoStats :
                r.videoId = v /\ r.viewCount = RevOf(up, v)
         /\ \A v \in RunVideos :
              \E r \in db.videoDaily : r.videoId = v /\ r.snapshotDate = today
    /\ queue = IF last.op = "deferred" THEN Tail(last.queueBefore)
               ELSE last.queueBefore

\* the last statement of the run failed, after every changed resource had
\* been written on the connection
C12_Witness ==
  /\ Ran
  /\ last.failed = "upsertVideoStatisticsDailySnapshot"
  /\ last.err = "DB_ERROR"
  /\ last.channelId = "c1"
  /\ db.channels # {}
  /\ \E v \in Videos : Tag(v) \notin StoredTags(db, v)

(***************************************************************************)
(* The change cache: hasResourceChanged and saveEtag called in any order   *)
(***************************************************************************)
ResourceTypes == {"channel", "video"}
ResourceIds == {"a", "b"}
\* the tags of the platform: absent, empty, and two that differ in case
Etags == {NULL, "", "e1", "E1"}

InitEtag ==
  /\ db = EmptyDb
  /\ up = 0
  /\ today = 0
  /\ queue = << >>
  /\ last = NoOp
  /\ arg = None
  /\ res = None

\* saveEtag(resourceType, resourceId, etag, timestamp, client)
SaveEtag(resourceType, resourceId, etag) ==
  /\ db' = saveEtag(Begin(db, "none"), "none", resourceType, resourceId,
                    etag, today).db
  /\ arg' = <<[call |-> "saveEtag", resourceType |-> resourceType,
               resourceId |-> resourceId, etag |-> etag]>>
  /\ res' = None
  /\ UNCHANGED <<up, today, queue, last>>

\* hasResourceChanged(resourceType, resourceId, latestEtag, client)
HasResourceChanged(resourceType, resourceId, latestEtag) ==
  /\ res' = <<hasResourceChanged(Begin(db, "none"), resourceType, resourceId,
                                 latestEtag)>>
  /\ arg' = <<[call |-> "hasResourceChanged", resourceType |-> resourceType,
               resourceId |-> resourceId, etag |-> latestEtag]>>
  /\ UNCHANGED <<db, up, today, queue, last>>

NextEtag ==
  \/ \E ty \in ResourceTypes, id \in ResourceIds, etag \in Etags :
       SaveEtag(ty, id, etag)
  \/ \E ty \in ResourceTypes, id \in ResourceIds, etag \in Etags :
       HasResourceChanged(ty, id, etag)

SpecEtag == InitEtag /\ [][NextEtag]_vars

\* the entries the cache holds for the resource of the call
Entries(d, call) ==
  {r \in d.etags :
     r.resourceType = call.resourceType /\ r.resourceId = call.resourceId}

C13_OneEntry ==
  \A r1, r2 \in db.etags :
    r1.resourceType = r2.resourceType /\ r1.resourceId = r2.resourceId
      => r1 = r2

C13_Decision ==
  arg # None /\ arg[1].call = "hasResourceChanged" =>
    res = <<\/ arg[1].etag \in {NULL, ""}
            \/ Entries(db, arg[1]) = {}
            \/ \E r \in Entries(db, arg[1]) : r.etag # arg[1].etag>>

C13_Saved ==
  arg' # None /\ arg'[1].call = "saveEtag" =>
    /\ Entries(db', arg'[1])
         = {[resourceType |-> arg'[1].resourceType,
             resourceId |-> arg'[1].resourceId, etag |-> arg'[1].etag]}
    /\ db'.etags \ Entries(db', arg'[1]) = db.etags \ Entries(db, arg'[1])

\* C13: hasResourceChanged answers true when the latest tag is null or
\* absent and when no entry is stored for (type, id); otherwise it answers
\* true exactly when the latest tag differs from the stored one by exact
\* comparison (a stored null, a difference in case) and false when they are
\* equal.  saveEtag leaves one entry for (type, id), holding the saved tag,
\* and every other entry as it was; the cache never holds two entries for
\* one (type, id).
C13_ChangeCacheDecision ==
  []C13_OneEntry /\ []C13_Decision /\ [][C13_Saved]_vars

\* "e1" is stored for video a and "E1" for channel a; asked about video a
\* with "e1", the answer is: unchanged
C13_Witness ==
  /\ arg # None /\ arg[1].call = "hasResourceChanged"
  /\ arg[1].resourceType = "video" /\ arg[1].resourceId = "a"
  /\ arg[1].etag = "e1"
  /\ res = <<FALSE>>
  /\ \E r \in db.etags :
       r.resourceType = "channel" /\ r.resourceId = "a" /\ r.etag = "E1"
  /\ \E r \in db.etags : r.etag = NULL

(***************************************************************************)
(* The change cache as an optimization                                     *)
(***************************************************************************)
\* the store the Refresh that has just committed would have left, had the
\* change cache been empty when it started
WithoutCache ==
  syncChannelData(Begin([last.before EXCEPT !.etags = {}], "none"), "none",
                  up, last.channelId, today).t.db

\* C14: a Refresh that uses the stored change cache ends with the same
\* channel, statistics, playlist and video rows and the same snapshot rows
\* as the same Refresh started with an empty change cache.
C14_SameMirrorWithoutCache ==
  Synced =>
    /\ db.channels = WithoutCache.channels
    /\ db.channelStats = WithoutCache.channelStats
    /\ db.playlists = WithoutCache.playlists
    /\ db.videos = WithoutCache.videos
    /\ db.videoStats = WithoutCache.videoStats
    /\ db.channelDaily = WithoutCache.channelDaily
    /\ db.videoDaily = WithoutCache.videoDaily

(***************************************************************************)
(* fetchVideosByIds batch by batch, and the step of syncChannelData that   *)
(* calls it                                                                *)
(***************************************************************************)
\* 50 in the source; the ids of a run exceed it here as they may there
MAX_BATCH_IDS == 2
MaxIds == 4
BatchVideos == Videos \cup {"E"}

\* the ids of uniqueVideoIds: no id twice
IdLists ==
  {ids \in UNION {[1..n -> BatchVideos] : n \in 0..MaxIds} : NoDuplicates(ids)}

\* a split that leaves out the chunk shorter than chunkSize
chunkArrayWhole(source, chunkSize) ==
  [k \in 1..(Len(source) \div chunkSize) |->
     SubSeq(source, (k - 1) * chunkSize + 1, k * chunkSize)]

chunkArray(source, chunkSize) ==
  [k \in 1..((Len(source) + chunkSize - 1) \div chunkSize) |->
     SubSeq(source, (k - 1) * chunkSize + 1,
            IF k * chunkSize < Len(source) THEN k * chunkSize
            ELSE Len(source))]

\* a loop that skips the batch whose request failed
RECURSIVE requestBatchesSkipping(_, _, _, _, _)
requestBatchesSkipping(u, batches, failing, k, videos) ==
  IF k > Len(batches)
  THEN [err |-> "none", videos |-> videos, requests |-> Len(batches),
        sent |-> batches]
  ELSE requestBatchesSkipping(u, batches, failing, k + 1,
         IF k = failing THEN videos
         ELSE videos \o fetchVideosByIds(u, batches[k]))

\* the loop of fetchVideosByIds from batch k on; the request of batch
\* `failing` throws (0: none does), and the call has no result then
RECURSIVE requestBatches(_, _, _, _, _)
requestBatches(u, batches, failing, k, videos) ==
  IF k > Len(batches)
  THEN [err |-> "none", videos |-> videos, requests |-> Len(batches),
        sent |-> batches]
  ELSE IF k = failing
  THEN [err |-> "YOUTUBE_API", videos |-> << >>, requests |-> k,
        sent |-> SubSeq(batches, 1, k)]
  ELSE requestBatches(u, batches, failing, k + 1,
                      videos \o fetchVideosByIds(u, batches[k]))

InitBatches ==
  /\ \E videoIds \in IdLists :
       \E failing \in 0..Len(chunkArray(videoIds, MAX_BATCH_IDS)) :
         arg = [videoIds |-> videoIds, failing |-> failing]
  /\ db \in {EmptyDb, LegacyDb}
  /\ up = 0
  /\ today = 0
  /\ queue = << >>
  /\ last = NoOp
  /\ res = None

\* syncChannelData from `const videoIds = [...uniqueVideoIds]` on, in its
\* transaction
SyncVideos ==
  LET fetched == requestBatches(up, chunkArray(arg.videoIds, MAX_BATCH_IDS),
                                arg.failing, 1, << >>)
      t0 == [Begin(db, "none") EXCEPT !.calls = fetched.requests]
      s == IF arg.videoIds = << >> THEN [t |-> t0, processed |-> 0]
           ELSE IF fetched.err # "none"
           THEN [t |-> [t0 EXCEPT !.err = fetched.err,
                                  !.failed = "fetchVideosByIds"],
                 processed |-> 0]
           ELSE persistVideos([t |-> t0, processed |-> 0], "none",
                              fetched.videos, << >>, today)
      done == runInTransaction(db, s.t, "none")
  IN /\ res = None
     /\ db' = done.db
     /\ res' = <<[err |-> done.err,
                  videoIds |-> [i \in DOMAIN fetched.videos |->
                                  fetched.videos[i].id],
                  requests |-> fetched.requests, sent |-> fetched.sent,
                  videosProcessed |-> s.processed, writes |-> s.t.writes,
                  before |-> db]>>
     /\ UNCHANGED <<up, today, queue, last, arg>>

NextBatches == SyncVideos

SpecBatches == InitBatches /\ [][NextBatches]_vars

\* the number of requests a call for n ids needs
BatchesFor(n) == (n + MAX_BATCH_IDS - 1) \div MAX_BATCH_IDS

\* C15: when the request of a batch fails, fetchVideosByIds fails as a
\* whole: it sends no further request, the caller gets the error and no
\* video of the batches fetched before, and the run writes no video (the
\* store stays as it was).  When no request fails the call returns every
\* requested video it has, in the order of the ids, after one request per
\* batch,
\* and each of them is processed ("E" is an id the platform has no video
\* for).
C15_NoPartialVideoResult ==
  res # None =>
    IF arg.failing \in 1..BatchesFor(Len(arg.videoIds))
    THEN /\ res[1].err = "YOUTUBE_API"
         /\ res[1].requests = arg.failing
         /\ res[1].videoIds = << >>
         /\ res[1].videosProcessed = 0
         /\ db = res[1].before
    ELSE /\ res[1].err = "none"
         /\ res[1].videoIds = SelectSeq(arg.videoIds, LAMBDA v : v \in Videos)
         /\ res[1].requests = BatchesFor(Len(arg.videoIds))
         /\ \A v \in SeqToSet(arg.videoIds) \cap Videos :
              /\ \E r \in db.videos : r.id = v
              /\ \E r \in db.videoDaily : r.videoId = v /\ r.snapshotDate = today

\* the second of two batches failed after the first had been answered
C15_Witness ==
  /\ res # None
  /\ Len(arg.videoIds) > MAX_BATCH_IDS
  /\ arg.failing = 2
  /\ res[1].err = "YOUTUBE_API"
  /\ res[1].before.videos # {}
  /\ \E v \in SeqToSet(arg.videoIds) : \A r \in db.videos : r.id # v

(***************************************************************************)
(* Properties of the deferred Refresh                                      *)
(***************************************************************************)
C16_Scheduled ==
  last.op = "subscribe" =>
    IF last.err = "none" /\ last.syncScheduled
    THEN /\ queue = Append(last.queueBefore, last.channelId)
         /\ ChannelRows(db, last.channelId) # {}
         /\ Memberships(db, last.userId, last.channelId) # {}
         /\ db.playlists = last.before.playlists
         /\ db.videos = last.before.videos
    ELSE queue = last.queueBefore

C16_RanDeferred ==
  last.op = "deferred" =>
    /\ last.queueBefore # << >>
    /\ last.channelId = Head(last.queueBefore) \/ last.err # "none"
    /\ queue = Tail(last.queueBefore)
    /\ ChannelRows(last.before, Head(last.queueBefore)) # {}
    /\ ChannelRows(db, Head(last.queueBefore)) # {}
    /\ db.subs = last.before.subs
    /\ last.err # "none" => db = last.before

C16_Step ==
  /\ Len(queue') > Len(queue) =>
       last'.op = "subscribe" /\ last'.err = "none" /\ last'.syncScheduled
  /\ last'.op = "deferred" => last.op = "none"

\* C16: a deferred Refresh is scheduled only by a Subscribe that committed
\* and returns syncScheduled = true, after the seed and membership rows are
\* in the store; Subscribe returns without the Refresh having run (no
\* playlist or video row is written by it), the Refresh starts after the
\* Subscribe result was handed back and runs in a transaction of its own;
\* when it fails the error is logged only: the seed row and the membership
\* rows stay, the store is as before the run, and the callback leaves the
\* queue.
C16_DeferredRefreshDetached ==
  []C16_Scheduled /\ []C16_RanDeferred /\ [][C16_Step]_vars

\* the deferred Refresh of a seeded channel failed
C16_Witness ==
  /\ last.op = "deferred"
  /\ last.err # "none"
  /\ ChannelRows(db, "c1") # {}
  /\ Memberships(db, "u1", "c1") # {}
  /\ PlaylistRows(db, "c1") = {}
  /\ queue = << >>

(***************************************************************************)
(* Two runs of syncChannelData for one channel, each in its transaction,   *)
(* statement by statement.  db is the committed store; res[p] is run p:    *)
(* the statement it is at, the rows it has written and not committed       *)
(* (own), and its local variables.  A statement sees the committed rows    *)
(* and the rows of its own transaction (READ COMMITTED); a write waits     *)
(* while the other transaction holds a row with the same key.              *)
(***************************************************************************)
Procs == {1, 2}
Other(p) == 3 - p
SyncedChannel == "c1"

\* the conflict target of each table
SameKey(table, r1, r2) ==
  CASE table \in {"channels", "playlists", "videos"} -> r1.id = r2.id
    [] table = "channelStats" -> r1.channelId = r2.channelId
    [] table = "channelDaily" ->
         r1.channelId = r2.channelId /\ r1.snapshotDate = r2.snapshotDate
    [] table \in {"videoStats", "topComments"} -> r1.videoId = r2.videoId
    [] table = "videoDaily" ->
         r1.videoId = r2.videoId /\ r1.snapshotDate = r2.snapshotDate
    [] table = "etags" ->
         r1.resourceType = r2.resourceType /\ r1.resourceId = r2.resourceId
    [] OTHER -> r1 = r2

\* the committed rows with the rows of a transaction laid over them
Merge(committed, own) ==
  [table \in DOMAIN committed |->
     {r \in committed[table] :
        \A x \in own[table] : ~SameKey(table, r, x)} \cup own[table]]

\* what the statements of run p see
View(p) == [db |-> Merge(db, res[p].own)]

\* the other transaction holds a row with the key of `row`
Held(p, table, row) ==
  \E x \in res[Other(p)].own[table] : SameKey(table, x, row)

NewRun ==
  [pc |-> "BEGIN", own |-> EmptyDb, playlists |-> << >>,
   m |-> [map |-> << >>, keys |-> << >>], videos |-> << >>]

\* the mirror after one Refresh at revision 0
SyncedDb == syncChannelData(Begin(EmptyDb, "none"), "none", 0, "c1", 0).t.db

InitConcurrent ==
  /\ db \in {EmptyDb, LegacyDb, SyncedDb}
  /\ up \in 0..MaxTime
  /\ today = 0
  /\ queue = << >>
  /\ last = NoOp
  /\ arg = [before |-> db]
  /\ res = [p \in Procs |-> NewRun]

At(p, pc) == res[p].pc = pc
Channel == fetchChannelById(up, SyncedChannel)
Playlist(p) == Head(res[p].playlists)
Video(p) == Head(res[p].videos)

EtagRow(resourceType, resource) ==
  [resourceType |-> resourceType, resourceId |-> resource.id,
   etag |-> resource.etag]

PlaylistRow(playlist) ==
  [id |-> playlist.id, channelId |-> playlist.channelId,
   content |-> playlist.content]

VideoStatsRow(video) == [videoId |-> video.id, viewCount |-> video.viewCount]

TopCommentRow(video, author) ==
  [videoId |-> video.id, channelId |-> video.channelId,
   authorChannelId |-> author]

VideoDailyRow(video) ==
  [videoId |-> video.id, channelId |-> video.channelId,
   snapshotDate |-> today, viewCount |-> video.viewCount]

TopComment(p) ==
  fetchTopCommentByVideo(CommentPagesOf(Video(p).id), Video(p).channelId)

ShortMetadataInput(p) ==
  LET row == VideoRow(Video(p), res[p].m.map, today)
  IN [videoId |-> row.id, duration |-> row.duration,
      durationSeconds |-> row.durationSeconds, isShort |-> row.isShort,
      shortRuleVersion |-> row.shortRuleVersion]

\* the table and the row the statement run p is at writes, << >> when it
\* writes none; the UPDATE takes only a row it can see and has to change
RowWritten(p) ==
  CASE At(p, "upsertChannel") -> <<"channels", ChannelRow(Channel, today)>>
    [] At(p, "upsertChannelStatistics") ->
         <<"channelStats", ChannelStatsRow(Channel, today)>>
    [] At(p, "saveChannelEtag") -> <<"etags", EtagRow("channel", Channel)>>
    [] At(p, "upsertChannelDaily") ->
         <<"channelDaily", ChannelDailyRow(Channel, today)>>
    [] At(p, "upsertPlaylist") -> <<"playlists", PlaylistRow(Playlist(p))>>
    [] At(p, "savePlaylistEtag") ->
         <<"etags", EtagRow("playlist", Playlist(p))>>
    [] At(p, "upsertVideo") ->
         <<"videos", VideoRow(Video(p), res[p].m.map, today)>>
    [] At(p, "upsertVideoStatistics") ->
         <<"videoStats", VideoStatsRow(Video(p))>>
    [] At(p, "syncTopCommentForVideo") /\ TopComment(p).found ->
         <<"topComments", TopCommentRow(Video(p), TopComment(p).author)>>
    [] At(p, "saveVideoEtag") -> <<"etags", EtagRow("video", Video(p))>>
    [] At(p, "updateVideoShortMetadata")
         /\ ShortMetadataTargets(View(p).db, ShortMetadataInput(p)) # {} ->
         <<"videos", VideoRow(Video(p), res[p].m.map, today)>>
    [] At(p, "upsertVideoDaily") -> <<"videoDaily", VideoDailyRow(Video(p))>>
    [] OTHER -> << >>

\* the statement of run p waits for the other transaction to end
Waiting(p) ==
  /\ Len(RowWritten(p)) = 2
  /\ Held(p, RowWritten(p)[1], RowWritten(p)[2])

\* run p goes on with its next statement
Goto(p, pc) ==
  /\ res' = [res EXCEPT ![p].pc = pc]
  /\ UNCHANGED <<db, up, today, queue, last, arg>>

\* run p writes and goes on
Write(p, own, pc) ==
  /\ ~Waiting(p)
  /\ res' = [res EXCEPT ![p].own = own, ![p].pc = pc]
  /\ UNCHANGED <<db, up, today, queue, last, arg>>

TxBegin(p) == At(p, "BEGIN") /\ Goto(p, "hasChannelChanged")

HasChannelChanged(p) ==
  /\ At(p, "hasChannelChanged")
  /\ Goto(p, IF hasResourceChanged(View(p), "channel", Channel.id,
                                   Channel.etag)
             THEN "upsertChannel" ELSE "upsertChannelDaily")

UpsertChannel(p) ==
  /\ At(p, "upsertChannel")
  /\ Write(p, upsertChannel(res[p].own, ChannelRow(Channel, today)),
           "upsertChannelStatistics")

UpsertChannelStatistics(p) ==
  /\ At(p, "upsertChannelStatistics")
  /\ Write(p, upsertChannelStatistics(res[p].own,
                                      ChannelStatsRow(Channel, today)),
           "saveChannelEtag")

SaveChannelEtag(p) ==
  /\ At(p, "saveChannelEtag")
  /\ Write(p, upsertEtag(res[p].own, EtagRow("channel", Channel)),
           "upsertChannelDaily")

UpsertChannelDaily(p) ==
  /\ At(p, "upsertChannelDaily")
  /\ ~Waiting(p)
  /\ res' = [res EXCEPT
       ![p].own = upsertChannelStatisticsDailySnapshot(
                    @, ChannelDailyRow(Channel, today)),
       ![p].playlists = fetchPlaylistsByChannel(up, Channel.id),
       ![p].pc = "hasPlaylistChanged"]
  /\ UNCHANGED <<db, up, today, queue, last, arg>>

\* the head of the playlist loop; after the last playlist the ids are
\* collected and the videos fetched
HasPlaylistChanged(p) ==
  /\ At(p, "hasPlaylistChanged")
  /\ res' = [res EXCEPT ![p] =
       IF @.playlists = << >>
       THEN LET videoIds == uniqueVideoIds(@.m.keys, Channel.uploadsPlaylistId)
            IN [@ EXCEPT !.videos = IF videoIds # << >>
                                    THEN fetchVideosByIds(up, videoIds)
                                    ELSE << >>,
                         !.pc = "hasVideoChanged"]
       ELSE IF hasResourceChanged(View(p), "playlist", Playlist(p).id,
                                  Playlist(p).etag)
       THEN [@ EXCEPT !.pc = "upsertPlaylist"]
       ELSE [@ EXCEPT !.playlists = Tail(@)]]
  /\ UNCHANGED <<db, up, today, queue, last, arg>>

UpsertPlaylist(p) ==
  /\ At(p, "upsertPlaylist")
  /\ Write(p, upsertPlaylist(res[p].own, PlaylistRow(Playlist(p))),
           "savePlaylistEtag")

SavePlaylistEtag(p) ==
  /\ At(p, "savePlaylistEtag")
  /\ ~Waiting(p)
  /\ res' = [res EXCEPT
       ![p].own = upsertEtag(@, EtagRow("playlist", Playlist(p))),
       ![p].m = mapPlaylistVideos(@, Playlist(p).id,
                                  fetchPlaylistVideoIds(Playlist(p).id)),
       ![p].playlists = Tail(@),
       ![p].pc = "hasPlaylistChanged"]
  /\ UNCHANGED <<db, up, today, queue, last, arg>>

\* the head of the loop of persistVideos
HasVideoChanged(p) ==
  /\ At(p, "hasVideoChanged")
  /\ Goto(p, IF res[p].videos = << >> THEN "COMMIT"
             ELSE IF hasResourceChanged(View(p), "video", Video(p).id,
                                        Video(p).etag)
             THEN "upsertVideo" ELSE "updateVideoShortMetadata")

UpsertVideo(p) ==
  /\ At(p, "upsertVideo")
  /\ Write(p, upsertVideo(res[p].own,
                          VideoRow(Video(p), res[p].m.map, today)),
           "upsertVideoStatistics")

UpsertVideoStatistics(p) ==
  /\ At(p, "upsertVideoStatistics")
  /\ Write(p, upsertVideoStatistics(res[p].own, VideoStatsRow(Video(p))),
           "syncTopCommentForVideo")

\* the top comment is fetched and, when there is one, written
SyncTopCommentForVideo(p) ==
  /\ At(p, "syncTopCommentForVideo")
  /\ IF TopComment(p).found
     THEN Write(p, upsertVideoTopComment(
                     res[p].own,
                     TopCommentRow(Video(p), TopComment(p).author)),
                "saveVideoEtag")
     ELSE Goto(p, "saveVideoEtag")

SaveVideoEtag(p) ==
  /\ At(p, "saveVideoEtag")
  /\ Write(p, upsertEtag(res[p].own, EtagRow("video", Video(p))),
           "upsertVideoDaily")

UpdateVideoShortMetadata(p) ==
  LET updated ==
        {r \in updateVideoShortMetadata(View(p).db,
                                        ShortMetadataInput(p)).videos :
           r.id = Video(p).id}
  IN /\ At(p, "updateVideoShortMetadata")
     /\ IF ShortMetadataTargets(View(p).db, ShortMetadataInput(p)) = {}
        THEN Goto(p, "upsertVideoDaily")
        ELSE Write(p, [res[p].own EXCEPT
                         !.videos = {r \in @ : r.id # Video(p).id}
                                      \cup updated],
                   "upsertVideoDaily")

UpsertVideoDaily(p) ==
  /\ At(p, "upsertVideoDaily")
  /\ ~Waiting(p)
  /\ res' = [res EXCEPT
       ![p].own = upsertVideoStatisticsDailySnapshot(@, VideoDailyRow(Video(p))),
       ![p].videos = Tail(@),
       ![p].pc = "hasVideoChanged"]
  /\ UNCHANGED <<db, up, today, queue, last, arg>>

\* COMMIT publishes the rows of the transaction and frees them
TxCommit(p) ==
  /\ At(p, "COMMIT")
  /\ db' = Merge(db, res[p].own)
  /\ res' = [res EXCEPT ![p].own = EmptyDb, ![p].pc = "done"]
  /\ UNCHANGED <<up, today, queue, last, arg>>

Statement(p) ==
  \/ TxBegin(p)
  \/ HasChannelChanged(p)
  \/ UpsertChannel(p)
  \/ UpsertChannelStatistics(p)
  \/ SaveChannelEtag(p)
  \/ UpsertChannelDaily(p)
  \/ HasPlaylistChanged(p)
  \/ UpsertPlaylist(p)
  \/ SavePlaylistEtag(p)
  \/ HasVideoChanged(p)
  \/ UpsertVideo(p)
  \/ UpsertVideoStatistics(p)
  \/ SyncTopCommentForVideo(p)
  \/ SaveVideoEtag(p)
  \/ UpdateVideoShortMetadata(p)
  \/ UpsertVideoDaily(p)
  \/ TxCommit(p)

NextConcurrent == \E p \in Procs : Statement(p)

SpecConcurrent == InitConcurrent /\ [][NextConcurrent]_vars

(***************************************************************************)
(* C17                                                                     *)
(***************************************************************************)
BothDone == \A p \in Procs : At(p, "done")

\* the store after one run alone on the initial store
SingleRun ==
  syncChannelData(Begin(arg.before, "none"), "none", up, SyncedChannel,
                  today).t.db

\* the store after a second run on the store of the first
SecondRun ==
  syncChannelData(Begin(SingleRun, "none"), "none", up, SyncedChannel,
                  today).t.db

OneRowPerKey(d) ==
  \A table \in DOMAIN d : \A r1, r2 \in d[table] :
    SameKey(table, r1, r2) => r1 = r2

\* a run that commits before the other begins leaves what syncChannelData does
C17_AloneIsSingleRun ==
  \A p \in Procs : At(p, "done") /\ At(Other(p), "BEGIN") => db = SingleRun

C17_NoDuplicateRow == OneRowPerKey(db)

\* while a run is not done, one of the two is not waiting for the other
C17_NotStuck ==
  BothDone \/ \E p \in Procs : ~At(p, "done") /\ ~Waiting(p)

\* each statement brings its run nearer to its end
Remaining(run) ==
  CASE run.pc = "BEGIN" -> 400
    [] run.pc \in {"hasChannelChanged", "upsertChannel",
                   "upsertChannelStatistics", "saveChannelEtag",
                   "upsertChannelDaily"} -> 300
    [] run.pc \in {"hasPlaylistChanged", "upsertPlaylist",
                   "savePlaylistEtag"} -> 200 + 10 * Len(run.playlists)
    [] run.pc = "done" -> 0
    [] OTHER -> 100 + 10 * Len(run.videos)

StatementRank(pc) ==
  CASE pc \in {"hasChannelChanged", "hasPlaylistChanged",
               "hasVideoChanged"} -> 9
    [] pc \in {"upsertChannel", "upsertPlaylist", "upsertVideo",
               "updateVideoShortMetadata"} -> 8
    [] pc \in {"upsertChannelStatistics", "savePlaylistEtag",
               "upsertVideoStatistics"} -> 7
    [] pc \in {"saveChannelEtag", "syncTopCommentForVideo"} -> 6
    [] pc = "saveVideoEtag" -> 5
    [] pc \in {"upsertChannelDaily", "upsertVideoDaily"} -> 4
    [] OTHER -> 0

C17_Progress ==
  \A p \in Procs :
    res'[p] # res[p] =>
      Remaining(res'[p]) + StatementRank(res'[p].pc)
        < Remaining(res[p]) + StatementRank(res[p].pc)

\* both runs end, whatever the interleaving, and the store is then the one
\* the two runs leave when the second begins after the first has committed
C17_RunsSerialize ==
  /\ []C17_AloneIsSingleRun
  /\ []C17_NoDuplicateRow
  /\ []C17_NotStuck
  /\ [](BothDone => db = SecondRun)
  /\ [][C17_Progress]_vars

\* C17: when two concurrent runs of syncChannelData for one channel over the
\* same platform data have both ended, the store is the one a single run
\* leaves, with one row per key in every table and no row missing.
C17_SameEndStateAsSingleRun ==
  BothDone => db = SingleRun /\ OneRowPerKey(db)

(***************************************************************************)
(* runInTransaction, await by await.  arg is the call: the awaits that     *)
(* reject and the value the callback resolves to.  res is the activation:  *)
(* where it is, the statements sent on the connection, the connections      *)
(* acquired and released, the error caught and how the call ended.         *)
(***************************************************************************)
Awaits == {"connect", "BEGIN", "callback", "COMMIT", "ROLLBACK"}
CallbackResults == {"r1", "r2"}

InitTransaction ==
  /\ db = EmptyDb
  /\ up = 0
  /\ today = 0
  /\ queue = << >>
  /\ last = NoOp
  /\ arg \in [rejects : SUBSET Awaits, result : CallbackResults]
  /\ res = [pc |-> "connect", sent |-> << >>, acquired |-> 0, released |-> 0,
            result |-> << >>, error |-> << >>, logged |-> << >>,
            outcome |-> << >>]

Rejects(name) == name \in arg.rejects

\* catch (rollbackError): the error is logged and dropped
catchRollbackErrorRethrow(r) == [r EXCEPT !.error = <<"ROLLBACK">>]
catchRollbackError(r) == [r EXCEPT !.logged = Append(@, "ROLLBACK")]

\* const client = await this.pool.connect(), outside the try
PoolConnect ==
  /\ res.pc = "connect"
  /\ res' = IF Rejects("connect")
            THEN [res EXCEPT !.pc = "exit", !.outcome = <<"throw", "connect">>]
            ELSE [res EXCEPT !.pc = "BEGIN", !.acquired = @ + 1]
  /\ UNCHANGED <<db, up, today, queue, last, arg>>

QueryBegin ==
  /\ res.pc = "BEGIN"
  /\ res' = IF Rejects("BEGIN")
            THEN [res EXCEPT !.sent = Append(@, "BEGIN"), !.pc = "ROLLBACK",
                             !.error = <<"BEGIN">>]
            ELSE [res EXCEPT !.sent = Append(@, "BEGIN"), !.pc = "callback"]
  /\ UNCHANGED <<db, up, today, queue, last, arg>>

Callback ==
  /\ res.pc = "callback"
  /\ res' = IF Rejects("callback")
            THEN [res EXCEPT !.pc = "ROLLBACK", !.error = <<"callback">>]
            ELSE [res EXCEPT !.pc = "COMMIT", !.result = <<arg.result>>]
  /\ UNCHANGED <<db, up, today, queue, last, arg>>

QueryCommit ==
  /\ res.pc = "COMMIT"
  /\ res' = IF Rejects("COMMIT")
            THEN [res EXCEPT !.sent = Append(@, "COMMIT"), !.pc = "ROLLBACK",
                             !.error = <<"COMMIT">>]
            ELSE [res EXCEPT !.sent = Append(@, "COMMIT"), !.pc = "finally"]
  /\ UNCHANGED <<db, up, today, queue, last, arg>>

\* the catch block
QueryRollback ==
  /\ res.pc = "ROLLBACK"
  /\ res' = IF Rejects("ROLLBACK")
            THEN catchRollbackError(
                   [res EXCEPT !.sent = Append(@, "ROLLBACK"),
                               !.pc = "finally"])
            ELSE [res EXCEPT !.sent = Append(@, "ROLLBACK"), !.pc = "finally"]
  /\ UNCHANGED <<db, up, today, queue, last, arg>>

\* finally: client.release(), then the pending return or throw
ClientRelease ==
  /\ res.pc = "finally"
  /\ res' = [res EXCEPT
       !.released = @ + 1,
       !.pc = "exit",
       !.outcome = IF res.error = << >> THEN <<"return", res.result[1]>>
                   ELSE <<"throw", res.error[1]>>]
  /\ UNCHANGED <<db, up, today, queue, last, arg>>

NextTransaction ==
  \/ PoolConnect
  \/ QueryBegin
  \/ Callback
  \/ QueryCommit
  \/ QueryRollback
  \/ ClientRelease

SpecTransaction == InitTransaction /\ [][NextTransaction]_vars

(***************************************************************************)
(* C18                                                                     *)
(***************************************************************************)
\* the first of BEGIN, callback and COMMIT that rejects, "" when none does
FirstRejected ==
  IF Rejects("BEGIN") THEN "BEGIN"
  ELSE IF Rejects("callback") THEN "callback"
  ELSE IF Rejects("COMMIT") THEN "COMMIT"
  ELSE ""

Exited == res.pc = "exit" /\ res.acquired = 1

SentBefore(name) ==
  CASE name = "BEGIN" -> <<"BEGIN">>
    [] name = "callback" -> <<"BEGIN">>
    [] OTHER -> <<"BEGIN", "COMMIT">>

\* C18: runInTransaction releases the connection it acquired exactly once
\* on every exit path and never before; when nothing rejects it sends BEGIN
\* and COMMIT and returns the result of the callback; when BEGIN, the
\* callback or COMMIT rejects it sends ROLLBACK and throws that error, also
\* when ROLLBACK rejects; COMMIT is never sent after the callback rejected.
C18_ReleaseOnEveryPath ==
  /\ res.released = (IF res.pc = "exit" THEN res.acquired ELSE 0)
  /\ res.acquired <= 1
  /\ Exited /\ FirstRejected = "" =>
       /\ res.sent = <<"BEGIN", "COMMIT">>
       /\ res.outcome = <<"return", arg.result>>
  /\ Exited /\ FirstRejected # "" =>
       /\ res.sent = Append(SentBefore(FirstRejected), "ROLLBACK")
       /\ res.outcome = <<"throw", FirstRejected>>
  /\ res.error = <<"callback">> =>
       \A i \in DOMAIN res.sent : res.sent[i] # "COMMIT"

\* the callback rejected, the ROLLBACK rejected too, and the call has ended
C18_Witness ==
  /\ Exited
  /\ FirstRejected = "callback"
  /\ Rejects("ROLLBACK")
  /\ res.logged = <<"ROLLBACK">>
  /\ res.released = 1

(***************************************************************************)
(* YouTubeDataApi.request and fetchChannelById over the replies of the     *)
(* platform.  arg is what fetch does for the call: it rejects (no route,   *)
(* reset, the HTTP client's timeout) or resolves to a response with a      *)
(* status and a body; res is how the call settles.                         *)
(***************************************************************************)
Rejections == {"ENOTFOUND", "ECONNRESET", "timeout"}
Statuses == {200, 400, 403, 404, 429, 500, 503, 504}
ChannelItems ==
  {[id |-> "c1", snippet |-> TRUE], [id |-> "c1", snippet |-> FALSE],
   [id |-> "", snippet |-> TRUE]}
ChannelItemLists == {<< >>} \cup {<<i>> : i \in ChannelItems}
                      \cup {<<[id |-> "c1", snippet |-> TRUE], i>> :
                              i \in ChannelItems}
Replies ==
  [rejects : {TRUE}, reason : Rejections, status : {0}, json : {FALSE},
   items : {<< >>}]
    \cup [rejects : {FALSE}, reason : {""}, status : Statuses,
          json : BOOLEAN, items : ChannelItemLists]

NoError == [name |-> "", code |-> "", statusCode |-> 0]
AppError(code, statusCode) ==
  [name |-> "AppError", code |-> code, statusCode |-> statusCode]

\* request: the body of the response, or the error thrown
request(reply) ==
  IF reply.rejects
  THEN [error |-> AppError("YOUTUBE_API_UNREACHABLE", 502), items |-> << >>]
  ELSE IF ~(reply.status >= 200 /\ reply.status <= 299)
  THEN [error |-> AppError("YOUTUBE_API_ERROR", reply.status), items |-> << >>]
  ELSE IF ~reply.json
  THEN [error |-> [name |-> "SyntaxError", code |-> "", statusCode |-> 0],
        items |-> << >>]
  ELSE [error |-> NoError, items |-> reply.items]

\* fetchChannelById: the channel of the first item, << >> for null
fetchChannelByIdFrom(reply) ==
  LET body == request(reply)
  IN IF body.error # NoError
     THEN [pc |-> "settled", error |-> body.error, value |-> << >>]
     ELSE IF body.items = << >> \/ body.items[1].id = ""
               \/ ~body.items[1].snippet
     THEN [pc |-> "settled", error |-> NoError, value |-> << >>]
     ELSE [pc |-> "settled", error |-> NoError, value |-> <<body.items[1].id>>]

InitRequest ==
  /\ db = EmptyDb
  /\ up = 0
  /\ today = 0
  /\ queue = << >>
  /\ last = NoOp
  /\ arg \in Replies
  /\ res = [pc |-> "pending", error |-> NoError, value |-> << >>]

\* the pending call settles
SettleFetchChannelById ==
  /\ res.pc = "pending"
  /\ res' = fetchChannelByIdFrom(arg)
  /\ UNCHANGED <<db, up, today, queue, last, arg>>

\* the next call
CallFetchChannelById ==
  /\ res.pc = "settled"
  /\ arg' \in Replies
  /\ res' = [pc |-> "pending", error |-> NoError, value |-> << >>]
  /\ UNCHANGED <<db, up, today, queue, last>>

NextRequest == SettleFetchChannelById \/ CallFetchChannelById

SpecRequest == InitRequest /\ [][NextRequest]_vars

(***************************************************************************)
(* C19                                                                     *)
(***************************************************************************)
\* the condition of a reply in the words of the taxonomy
Condition(reply) ==
  IF reply.rejects
  THEN (IF reply.reason = "timeout" THEN "degraded" ELSE "unavailable")
  ELSE IF reply.status >= 400 /\ reply.status <= 499 THEN "rejected"
  ELSE IF reply.status >= 500 /\ reply.status <= 599 THEN "degraded"
  ELSE "none"

\* what a caller can tell one error from another by
Kind(error) == <<error.name, error.code, error.statusCode>>

Settled == res.pc = "settled"

\* an empty, or unusable, first item is reported as null and not as an error
C19_EmptyLookupIsNull ==
  Settled /\ ~arg.rejects /\ arg.status = 200 /\ arg.json
    /\ (arg.items = << >> \/ arg.items[1].id = "" \/ ~arg.items[1].snippet)
    => res.error = NoError /\ res.value = << >>

\* C19: a call that fails in one of the three conditions (unavailable,
\* rejected, degraded) throws an error whose kind no reply of another
\* condition yields, and a lookup with an empty result returns null.
C19_ThreeErrorKinds ==
  /\ Settled /\ Condition(arg) # "none" =>
       /\ res.error # NoError
       /\ \A other \in Replies :
            Condition(other) \notin {"none", Condition(arg)} =>
              Kind(request(other).error) # Kind(res.error)
  /\ C19_EmptyLookupIsNull

(***************************************************************************)
(* C20                                                                     *)
(***************************************************************************)
\* the videos the batch fetch of the run returned
ReturnedVideos == {v.id : v \in SeqToSet(fetchVideosByIds(up, last.videoIds))}

RanAndCommitted == Ran /\ last.err = "none"

SnapshotToday(v) ==
  {r \in db.videoDaily : r.videoId = v /\ r.snapshotDate = today}

\* C20: after a Refresh that commits, a daily snapshot dated today exists for
\* the channel and for every video the batch fetch returned, with the
\* counters fetched in the run, for a resource the change cache reported
\* unchanged as for a changed one.
C20_SnapshotsTimeBased ==
  RanAndCommitted =>
    /\ \E r \in db.channelDaily :
         /\ r.channelId = last.channelId /\ r.snapshotDate = today
         /\ r.viewCount = fetchChannelById(up, last.channelId).viewCount
    /\ \A v \in ReturnedVideos :
         /\ SnapshotToday(v) # {}
         /\ \A r \in SnapshotToday(v) : r.viewCount = RevOf(up, v)
    /\ \A v \in ReturnedVideos :
         SameTag(v) => ~Wrote("videoStats", v) /\ SnapshotToday(v) # {}

\* the run found the channel and a video unchanged and neither had a
\* snapshot of today before it
C20_Witness ==
  /\ RanAndCommitted
  /\ SameTag(last.channelId)
  /\ \A r \in last.before.channelDaily :
       r.channelId = last.channelId => r.snapshotDate # today
  /\ \E v \in ReturnedVideos :
       /\ SameTag(v)
       /\ \A r \in last.before.videoDaily :
            r.videoId = v => r.snapshotDate # today
       /\ SnapshotToday(v) # {}

(***************************************************************************)
(* persistVideos for one video whose tag is the stored one.  arg is the    *)
(* call: the fetched video, the video row the store holds for it (none, or *)
(* one with derived columns of any age) and the videoPlaylistMap of the    *)
(* run; the store also holds its statistics, top comment and tag.          *)
(***************************************************************************)
StoredDurations ==
  {<< >>, <<"P", "T", "2", "M", "5", "9", "S">>, <<"P", "T", "3", "M", "1", "S">>}

\* the item videos.list returns for video "A" at revision 1
UnchangedVideo(duration) ==
  [fetchVideosByIds(1, <<"A">>)[1] EXCEPT !.duration = duration]

\* video rows an earlier run, of this or an earlier rule version, has left
StoredVideoRows ==
  [id : {"A"}, channelId : {"c1"}, playlistId : {NULL, "P1"}, content : {0, 1},
   duration : StoredDurations, durationSeconds : {None, <<179>>, <<181>>},
   isShort : {None, <<TRUE>>, <<FALSE>>},
   shortRuleVersion : {NULL, "v0", ShortRuleVersion}]

\* the store around a video row: statistics, top comment and tag of the video
StoreOfVideo(video, rows) ==
  [EmptyDb EXCEPT
     !.videos = rows,
     !.videoStats = {[videoId |-> video.id, viewCount |-> 0]},
     !.topComments = {[videoId |-> video.id, channelId |-> video.channelId,
                       authorChannelId |-> "z"]},
     !.etags = {[resourceType |-> "video", resourceId |-> video.id,
                 etag |-> video.etag]}]

InitReconcile ==
  /\ arg \in [video : {UnchangedVideo(d) : d \in StoredDurations},
              rows : {{}} \cup {{r} : r \in StoredVideoRows},
              playlistMap : {<< >>, [v \in {"A"} |-> "P2"]}]
  /\ db = StoreOfVideo(arg.video, arg.rows)
  /\ up = 1
  /\ today = 0
  /\ queue = << >>
  /\ last = NoOp
  /\ res = None

\* persistVideos([video], videoPlaylistMap, now, client) in its transaction
PersistUnchangedVideo ==
  LET s == persistVideos([t |-> Begin(db, "none"), processed |-> 0], "none",
                         <<arg.video>>, arg.playlistMap, today)
      done == runInTransaction(db, s.t, "none")
  IN /\ res = None
     /\ db' = done.db
     /\ res' = <<[videosProcessed |-> s.processed, writes |-> s.t.writes]>>
     /\ UNCHANGED <<up, today, queue, last, arg>>

NextReconcile == PersistUnchangedVideo

SpecReconcile == InitReconcile /\ [][NextReconcile]_vars

(***************************************************************************)
(* C21                                                                     *)
(***************************************************************************)
Reconciled == res # None

\* the derived columns of the video as the current rule derives them
DerivedRow == VideoRow(arg.video, arg.playlistMap, today)

SameDerived(r) ==
  /\ r.duration = DerivedRow.duration
  /\ r.durationSeconds = DerivedRow.durationSeconds
  /\ r.isShort = DerivedRow.isShort
  /\ r.shortRuleVersion = DerivedRow.shortRuleVersion

\* C21: for a video whose tag is unchanged, the run sets the duration,
\* duration-in-seconds, is-short and rule-version columns of the existing
\* video row to the newly derived values, writing the row only when one of
\* them differs; the other columns of the row, the statistics row, the
\* top-comment row and the change-cache entry stay as they were, and no row
\* is created when there is none.
C21_ReconcilesDerivedFieldsOnly ==
  Reconciled =>
    /\ res[1].videosProcessed = 0
    /\ db.videos =
         {[r EXCEPT !.duration = DerivedRow.duration,
                    !.durationSeconds = DerivedRow.durationSeconds,
                    !.isShort = DerivedRow.isShort,
                    !.shortRuleVersion = DerivedRow.shortRuleVersion] :
            r \in arg.rows}
    /\ <<"videos", "A">> \in res[1].writes
         <=> \E r \in arg.rows : ~SameDerived(r)
    /\ db.videoStats = StoreOfVideo(arg.video, arg.rows).videoStats
    /\ db.topComments = StoreOfVideo(arg.video, arg.rows).topComments
    /\ db.etags = StoreOfVideo(arg.video, arg.rows).etags

\* the row of an earlier rule version, with another content and playlist
\* than the run would write, has been brought to the current rule
C21_Witness ==
  /\ Reconciled
  /\ \E r \in arg.rows :
       /\ r.shortRuleVersion = "v0" /\ r.isShort # DerivedRow.isShort
       /\ r.content # DerivedRow.content /\ r.playlistId # DerivedRow.playlistId
  /\ \A r \in db.videos :
       /\ SameDerived(r)
       /\ r.content # DerivedRow.content /\ r.playlistId # DerivedRow.playlistId
  /\ <<"videos", "A">> \in res[1].writes

(***************************************************************************)
(* C22                                                                     *)
(***************************************************************************)
\* C22: after every committed Refresh a video that is a member of a playlist
\* of the channel has the first playlist that contains it as its stored
\* originating playlist, and a row that named a playlist before the run
\* names the same playlist after it (the membership never changes here).
C22_OriginatingPlaylistStays ==
  Synced =>
    /\ \A r \in db.videos :
         r.id \in Members(RunPlaylists) =>
           r.playlistId = FirstHolding(r.id, RunPlaylists)
    /\ \A r0 \in last.before.videos : \A r \in db.videos :
         r.id = r0.id /\ r0.playlistId # NULL => r.playlistId = r0.playlistId

(***************************************************************************)
(* C23                                                                     *)
(***************************************************************************)
RECURSIVE Concat(_)
Concat(seqs) == IF seqs = << >> THEN << >> ELSE Head(seqs) \o Concat(Tail(seqs))

\* the ids of the videos the platform has among those of a request
Answered(batch) == SelectSeq(batch, LAMBDA v : v \in Videos)

\* C23: a call of fetchVideosByIds in which no request fails sends one
\* request per batch; each batch holds between one and MAX_BATCH_IDS ids, the
\* batches one after the other are the input list, an empty list sends no
\* request, and the result is the answers of the batches in batch order,
\* each a requested id.
C23_BatchesPartitionTheIds ==
  res # None /\ arg.failing = 0 =>
    /\ res[1].requests = Len(res[1].sent)
    /\ \A k \in DOMAIN res[1].sent :
         Len(res[1].sent[k]) \in 1..MAX_BATCH_IDS
    /\ Concat(res[1].sent) = arg.videoIds
    /\ arg.videoIds = << >> => res[1].requests = 0
    /\ res[1].videoIds =
         Concat([k \in DOMAIN res[1].sent |-> Answered(res[1].sent[k])])
    /\ SeqToSet(res[1].videoIds) \subseteq SeqToSet(arg.videoIds)

\* two requests, the second with the ids left over, one of them unknown to
\* the platform
C23_Witness ==
  /\ res # None
  /\ arg.failing = 0
  /\ Len(res[1].sent) = 2
  /\ Len(res[1].sent[2]) < MAX_BATCH_IDS
  /\ "E" \in SeqToSet(arg.videoIds)
  /\ Len(res[1].videoIds) = Len(arg.videoIds) - 1

(***************************************************************************)
(* The pagination loops of YouTubeDataApi, request by request.  arg is the *)
(* call and the platform: which list is read, its pages, the page the      *)
(* cursor of the last page names (0: the last response has no cursor) and  *)
(* the request that fails (0: none).  res is the activation of the loop.   *)
(* The request counter and the collected list stop growing at their        *)
(* bounds and only the parity of the requests sent is kept exactly, so     *)
(* that a loop that never ends is a cycle of the model.                    *)
(***************************************************************************)
MaxPages == 2
MaxRequests == 4
MaxCollected == 4

\* the items of a page: "" is an item the mapping drops (no id, no top-level
\* comment), "x" the channel's own id
Pages == {<< >>, <<"x">>, <<"", "y">>}
Lists == {"playlists", "playlistItems", "commentThreads"}
ExcludedAuthor == "x"

InitPages ==
  /\ \E n \in 1..MaxPages :
       arg \in [list : Lists, pages : [1..n -> Pages], after : 0..n,
                failing : 0..(n + 1)]
  /\ res = [pc |-> "request", pageToken |-> 0, collected |-> << >>,
            requests |-> 0, odd |-> FALSE, value |-> << >>]
  /\ db = EmptyDb
  /\ up = 0
  /\ today = 0
  /\ queue = << >>
  /\ last = NoOp

\* body.nextPageToken of the response to the request for page i
nextPageToken(i) == IF i < Len(arg.pages) THEN i + 1 ELSE arg.after

\* the items of a page the loop keeps
Kept(page) == SelectSeq(page, LAMBDA item : item # "")

\* the comment threads of a page that are not the channel's own
EligibleThreads(page) == SelectSeq(Kept(page), LAMBDA item : item # ExcludedAuthor)

Capped(list) ==
  IF Len(list) > MaxCollected THEN SubSeq(list, 1, MaxCollected) ELSE list

\* one pass of do { ... } while (pageToken)
RequestPage ==
  LET i == IF res.pageToken = 0 THEN 1 ELSE res.pageToken
      n == IF res.requests < MaxRequests THEN res.requests + 1 ELSE MaxRequests
      collected == Capped(res.collected \o Kept(arg.pages[i]))
  IN /\ res.pc = "request"
     /\ res' =
          IF res.requests < MaxRequests /\ n = arg.failing
          THEN [res EXCEPT !.pc = "failed", !.requests = n, !.odd = ~@]
          ELSE IF arg.list = "commentThreads"
                    /\ EligibleThreads(arg.pages[i]) # << >>
          THEN [res EXCEPT !.pc = "done", !.requests = n, !.odd = ~@,
                           !.value = <<Head(EligibleThreads(arg.pages[i]))>>]
          ELSE IF arg.list = "commentThreads"
          THEN [res EXCEPT !.pc = IF nextPageToken(i) = 0 THEN "done"
                                  ELSE "request",
                           !.requests = n, !.odd = ~@,
                           !.pageToken = nextPageToken(i)]
          ELSE [res EXCEPT !.pc = IF nextPageToken(i) = 0 THEN "done"
                                  ELSE "request",
                           !.requests = n, !.odd = ~@,
                           !.pageToken = nextPageToken(i),
                           !.collected = collected,
                           !.value = IF nextPageToken(i) = 0 THEN collected
                                     ELSE << >>]
     /\ UNCHANGED <<db, up, today, queue, last, arg>>

NextPages == RequestPage

\* the event loop resumes the loop after each response
SpecPages == InitPages /\ [][NextPages]_vars /\ WF_vars(RequestPage)

(***************************************************************************)
(* C24                                                                     *)
(***************************************************************************)
Returned == res.pc = "done"
Settles == res.pc \in {"done", "failed"}

\* when the last response carries no cursor and no request fails, a list
\* loop has sent one request per page and returns the kept items of all
\* pages in page order
C24_AllPagesInOrder ==
  Returned /\ arg.after = 0 /\ arg.list # "commentThreads" =>
    /\ res.requests = Len(arg.pages)
    /\ res.value = Concat([i \in DOMAIN arg.pages |-> Kept(arg.pages[i])])

\* C24: every call of a pagination loop eventually returns or fails, also
\* when every response carries a next-page cursor, and a list loop that
\* returns has sent one request per page and returns all pages in page order.
C24_PaginationTerminates == []C24_AllPagesInOrder /\ <>Settles

(***************************************************************************)
(* subscribeChannel and the callback of scheduleChannelSync on the event   *)
(* loop, await by await.  arg is the request in progress; res holds where  *)
(* the request is, whether its client is still connected, where the        *)
(* deferred run is and how many callbacks were ever set; queue holds the   *)
(* callbacks setImmediate has pending.                                     *)
(***************************************************************************)
NoRequest == [channelId |-> NULL, userId |-> NULL]
Subscribers == {"u1", "u2"}

InitDeferred ==
  /\ db \in {EmptyDb, LegacyDb}
  /\ up = 0
  /\ today = 0
  /\ queue = << >>
  /\ last = NoOp
  /\ arg = NoRequest
  /\ res = [request |-> "none", client |-> "none", syncScheduled |-> FALSE,
            run |-> "none", channelId |-> NULL, callbacks |-> 0,
            logged |-> "none"]

RequestOver == res.request \in {"none", "returned", "dropped", "failed"}

\* a client calls subscribeChannel(channelId, userId)
CallSubscribe(channelId, userId) ==
  /\ RequestOver
  /\ arg' = [channelId |-> channelId, userId |-> userId]
  /\ res' = [res EXCEPT !.request = "transaction", !.client = "connected",
                        !.syncScheduled = FALSE]
  /\ UNCHANGED <<db, up, today, queue, last>>

\* await runInTransaction(...): the transaction commits or rolls back
SettleSubscribe(fp) ==
  LET r == subscribeCallback(db, up, arg.channelId, arg.userId, fp, today)
      done == runInTransaction(db, r.t, fp)
  IN /\ res.request = "transaction"
     /\ db' = done.db
     /\ res' = IF done.err # "none" THEN [res EXCEPT !.request = "failed"]
               ELSE [res EXCEPT !.request = "committed",
                                !.syncScheduled = r.syncScheduled]
     /\ UNCHANGED <<up, today, queue, last, arg>>

\* if (result.syncScheduled) this.scheduleChannelSync(result.channelId)
ScheduleChannelSync ==
  /\ res.request = "committed"
  /\ queue' = IF res.syncScheduled
              THEN scheduleChannelSync(queue, arg.channelId) ELSE queue
  /\ res' = [res EXCEPT
       !.request = "returning",
       !.run = IF res.syncScheduled THEN "queued" ELSE @,
       !.callbacks = IF res.syncScheduled THEN @ + 1 ELSE @]
  /\ UNCHANGED <<db, up, today, last, arg>>

\* return result: the response is sent, or dropped when the client is gone
ReturnResult ==
  /\ res.request = "returning"
  /\ res' = [res EXCEPT !.request = IF res.client = "gone" THEN "dropped"
                                    ELSE "returned"]
  /\ UNCHANGED <<db, up, today, queue, last, arg>>

\* the client gives the request up
ClientGone ==
  /\ res.request \in {"transaction", "committed", "returning"}
  /\ res.client = "connected"
  /\ res' = [res EXCEPT !.client = "gone"]
  /\ UNCHANGED <<db, up, today, queue, last, arg>>

\* a callback that is dropped when the client of the request has gone
startCallbackUnlessGone(client) == IF client = "gone" THEN "none" ELSE "running"

\* the callback starts whatever became of the request
startCallback(client) == "running"

\* the event loop takes the callback: runInTransaction(syncChannelData) starts
StartDeferred ==
  /\ queue # << >>
  /\ queue' = Tail(queue)
  /\ res' = [res EXCEPT !.run = startCallback(res.client),
                        !.channelId = Head(queue)]
  /\ UNCHANGED <<db, up, today, last, arg>>

\* the store a Subscribe that seeds "c1" commits
SeededDb ==
  runInTransaction(EmptyDb,
                   subscribeCallback(EmptyDb, 0, "c1", "u1", "none", 0).t,
                   "none").db

\* runInTransaction((client) => syncChannelData("c1", client)) on the seeded
\* store, for each step that may fail; the run reads and writes no membership
DeferredOutcome ==
  [fp \in RefreshFailPoints |->
     runInTransaction(SeededDb,
                      syncChannelData(Begin(SeededDb, fp), fp, 0, "c1", 0).t,
                      fp)]

\* the run commits (.then) or rolls back (.catch); both only log
SettleDeferred(fp) ==
  LET done == DeferredOutcome[fp]
  IN /\ res.run = "running"
     /\ db' = [done.db EXCEPT !.subs = db.subs]
     /\ res' = IF done.err # "none"
               THEN [res EXCEPT !.run = "failed", !.logged = "error"]
               ELSE [res EXCEPT !.run = "done", !.logged = "info"]
     /\ UNCHANGED <<up, today, queue, last, arg>>

NextDeferred ==
  \/ \E c \in Channels, u \in Subscribers : CallSubscribe(c, u)
  \/ \E fp \in SubscribeFailPoints : SettleSubscribe(fp)
  \/ ScheduleChannelSync
  \/ ReturnResult
  \/ ClientGone
  \/ StartDeferred
  \/ \E fp \in RefreshFailPoints : SettleDeferred(fp)

\* the event loop resumes every continuation and runs every callback it holds
SpecDeferred ==
  /\ InitDeferred
  /\ [][NextDeferred]_vars
  /\ WF_vars(ScheduleChannelSync)
  /\ WF_vars(StartDeferred)
  /\ WF_vars(\E fp \in RefreshFailPoints : SettleDeferred(fp))

(***************************************************************************)
(* C25                                                                     *)
(***************************************************************************)
CommittedScheduled == res.request = "committed" /\ res.syncScheduled
DeferredSettled == res.run \in {"done", "failed"}

\* one callback per committed Subscribe that seeds, none otherwise
C25_OneCallback ==
  /\ res.callbacks <= 1
  /\ Len(queue) <= res.callbacks
  /\ res.run = "none" <=> res.callbacks = 0
  /\ res.run = "queued" <=> queue # << >>
  /\ res.run # "none" => ChannelRows(db, "c1") # {}
  /\ res.run \in {"queued", "running"} =>
       [db EXCEPT !.subs = {}] = [SeededDb EXCEPT !.subs = {}]
  /\ res.run = "running" => res.channelId = "c1"

\* a callback is set only by the step after the commit, leaves the queue
\* only by starting, and a run that has started is not undone by anything
\* the request or its client does
C25_NotCancelled ==
  /\ queue' # queue =>
       \/ CommittedScheduled /\ queue' = Append(queue, arg.channelId)
            /\ res'.callbacks = res.callbacks + 1
       \/ queue' = Tail(queue) /\ res'.run = "running"
            /\ res'.channelId = Head(queue)
  /\ res.run = "running" => res'.run \in {"running", "done", "failed"}
  /\ DeferredSettled => res'.run = res.run

\* C25: a Subscribe that commits with syncScheduled = true sets exactly one
\* deferred Refresh of the channel; under fair scheduling it starts and ends
\* as done or failed, whether the request has returned, failed to respond or
\* lost its client in the meantime.
C25_DeferredRefreshRuns ==
  /\ []C25_OneCallback
  /\ [][C25_NotCancelled]_vars
  /\ (CommittedScheduled ~> DeferredSettled)

\* the deferred run ended although the client had gone before the response
C25_Witness ==
  /\ DeferredSettled
  /\ res.request = "dropped"
  /\ res.callbacks = 1
  /\ queue = << >>

(***************************************************************************)
(* jobs/subscriptionSync.ts: the nightly re-sync.  arg is the wall clock   *)
(* (ticks since local midnight); res holds the module's two variables, the *)
(* timers setTimeout has pending (ticks left of each), the runs in         *)
(* progress and the record of the run that ended last.                     *)
(***************************************************************************)
DayLen == 4      \* ticks of one day
MinDelay == 2    \* ticks of 1_000 ms
MaxCalls == 2    \* calls of scheduleSubscribedChannelSyncJob in a behaviour

\* ORDER BY channel_id ASC over the ids the membership table may hold; "c0"
\* and "cx" are channels the platform no longer has
ChannelOrder == <<"c0", "c1", "cx">>

Membership(u, c) == [userId |-> u, channelId |-> c, customUrl |-> c]

SubscribedSets ==
  {{},
   {Membership("u1", "c1")},
   {Membership("u1", "c1"), Membership("u2", "c1"), Membership("u1", "cx")},
   {Membership("u1", "c0"), Membership("u2", "c1")}}

\* SELECT DISTINCT channel_id FROM subscribed_channel_info ORDER BY channel_id
listDistinctChannelIds(d) ==
  SelectSeq(ChannelOrder, LAMBDA c : \E r \in d.subs : r.channelId = c)

\* Math.max(next.getTime() - now.getTime(), 1_000)
msUntilNextMidnight(now) ==
  IF DayLen - now > MinDelay THEN DayLen - now ELSE MinDelay

NoRun ==
  [pc |-> "none", channelIds |-> << >>, index |-> 0, attempted |-> << >>,
   failed |-> << >>, processed |-> 0, listed |-> {}, outcome |-> "none"]

InitJob ==
  /\ \E subscribed \in SubscribedSets :
       db = [SyncedDb EXCEPT !.subs = subscribed]
  /\ up = 0
  /\ today = 0
  /\ queue = << >>
  /\ last = NoOp
  /\ arg \in [now : 0..(DayLen - 1)]
  /\ res = [scheduling |-> FALSE, scheduledTimer |-> "null", timers |-> << >>,
            calls |-> 0, runs |-> << >>, done |-> NoRun, delay |-> 0]

RemoveAt(seq, i) == SubSeq(seq, 1, i - 1) \o SubSeq(seq, i + 1, Len(seq))

\* scheduleNextRun: scheduledTimer = setTimeout(callback, msUntilNextMidnight())
scheduleNextRun(job, now) ==
  [job EXCEPT !.scheduledTimer = "set",
              !.timers = Append(@, msUntilNextMidnight(now)),
              !.delay = msUntilNextMidnight(now)]

\* a job that arms a timer on every call
scheduleAlways(job, now) ==
  scheduleNextRun([job EXCEPT !.scheduling = TRUE], now)

\* scheduleSubscribedChannelSyncJob: if (scheduling) return
scheduleSubscribedChannelSyncJob(job, now) ==
  IF job.scheduling THEN job
  ELSE scheduleNextRun([job EXCEPT !.scheduling = TRUE], now)

ScheduleJob ==
  /\ res.calls < MaxCalls
  /\ res' = [scheduleSubscribedChannelSyncJob(res, arg.now)
               EXCEPT !.calls = @ + 1]
  /\ UNCHANGED <<db, up, today, queue, last, arg>>

\* a tick of the wall clock; the day counter of the mirror saturates
ClockTick ==
  /\ arg' = [now |-> (arg.now + 1) % DayLen]
  /\ today' = IF arg.now + 1 = DayLen /\ today < MaxTime THEN today + 1
              ELSE today
  /\ res' = [res EXCEPT !.timers =
               [i \in DOMAIN @ |-> IF @[i] > 0 THEN @[i] - 1 ELSE 0]]
  /\ UNCHANGED <<db, up, queue, last>>

\* the timer callback: scheduledTimer = null, runSubscribedChannelsSyncOnce()
\* is called and issues the listing query
TimerFires(i) ==
  /\ i \in DOMAIN res.timers
  /\ res.timers[i] = 0
  /\ res' = [res EXCEPT !.scheduledTimer = "null",
                        !.timers = RemoveAt(@, i),
                        !.runs = Append(@, [NoRun EXCEPT !.pc = "listing"])]
  /\ UNCHANGED <<db, up, today, queue, last, arg>>

\* a callback without finally: a run that threw arms no timer
endRunUnlessThrown(job, i, run, outcome, now) ==
  LET ended == [job EXCEPT !.runs = RemoveAt(@, i),
                           !.done = [run EXCEPT !.pc = "ended",
                                                !.outcome = outcome]]
  IN IF outcome = "threw" THEN ended ELSE scheduleNextRun(ended, now)

\* the run of index i leaves runSubscribedChannelsSyncOnce with the given
\* outcome; catch logs, finally calls scheduleNextRun()
endRun(job, i, run, outcome, now) ==
  scheduleNextRun([job EXCEPT
                     !.runs = RemoveAt(@, i),
                     !.done = [run EXCEPT !.pc = "ended",
                                          !.outcome = outcome]], now)

\* await listDistinctChannelIds() settles
listSettled(job, i, d, rejected, now) ==
  LET run == job.runs[i]
      channelIds == listDistinctChannelIds(d)
      listedRun == [run EXCEPT !.channelIds = channelIds,
                               !.listed = {r.channelId : r \in d.subs}]
  IN IF rejected THEN endRun(job, i, run, "threw", now)
     ELSE IF Len(channelIds) = 0 THEN endRun(job, i, listedRun, "skipped", now)
     ELSE [job EXCEPT !.runs[i] = [listedRun EXCEPT !.pc = "refreshing",
                                                    !.index = 1]]

ListSettles(i, rejected) ==
  /\ i \in DOMAIN res.runs
  /\ res.runs[i].pc = "listing"
  /\ res' = listSettled(res, i, db, rejected, arg.now)
  /\ UNCHANGED <<db, up, today, queue, last, arg>>

\* a loop that gives a failed channel a second attempt
refreshSettledRetrying(job, i, threw, now) ==
  LET run == job.runs[i]
      channelId == run.channelIds[run.index]
      retry == threw /\ channelId \notin SeqToSet(run.attempted)
      after == [run EXCEPT
                  !.attempted = Append(@, channelId),
                  !.failed = IF threw THEN Append(@, channelId) ELSE @,
                  !.processed = IF threw THEN @ ELSE @ + 1,
                  !.index = IF retry THEN @ ELSE @ + 1]
  IN IF after.index > Len(run.channelIds)
     THEN endRun(job, i, after, "finished", now)
     ELSE [job EXCEPT !.runs[i] = after]

\* await refreshChannel(channelId) settles: try { processed += 1; log }
\* catch { logger.error }, then the next channel or the end of the run
refreshSettled(job, i, threw, now) ==
  LET run == job.runs[i]
      channelId == run.channelIds[run.index]
      after == [run EXCEPT
                  !.attempted = Append(@, channelId),
                  !.failed = IF threw THEN Append(@, channelId) ELSE @,
                  !.processed = IF threw THEN @ ELSE @ + 1,
                  !.index = @ + 1]
  IN IF after.index > Len(run.channelIds)
     THEN endRun(job, i, after, "finished", now)
     ELSE [job EXCEPT !.runs[i] = after]

RefreshSettles(i, fp) ==
  /\ i \in DOMAIN res.runs
  /\ res.runs[i].pc = "refreshing"
  /\ LET channelId == res.runs[i].channelIds[res.runs[i].index]
         r == syncChannelData(Begin(db, fp), fp, up, channelId, today)
         done == runInTransaction(db, r.t, fp)
     IN /\ db' = done.db
        /\ res' = refreshSettled(res, i, done.err # "none", arg.now)
  /\ UNCHANGED <<up, today, queue, last, arg>>

\* the job's part of a settled refreshChannel, whatever the store's part
RefreshContinues ==
  \E i \in DOMAIN res.runs, threw \in BOOLEAN :
    /\ res.runs[i].pc = "refreshing"
    /\ res' = refreshSettled(res, i, threw, arg.now)

NextJob ==
  \/ ScheduleJob
  \/ ClockTick
  \/ \E i \in 1..MaxCalls : TimerFires(i)
  \/ \E i \in 1..MaxCalls, rejected \in BOOLEAN : ListSettles(i, rejected)
  \/ \E i \in 1..MaxCalls, fp \in RefreshFailPoints : RefreshSettles(i, fp)
  \/ \E c \in Channels, u \in Users : Unsubscribe(c, u)

\* time passes, a due timer fires and the event loop resumes every await
SpecJob ==
  /\ InitJob
  /\ [][NextJob]_vars
  /\ WF_vars(ClockTick)
  /\ WF_vars(\E i \in 1..MaxCalls : TimerFires(i))
  /\ WF_vars(\E i \in 1..MaxCalls, rejected \in BOOLEAN : ListSettles(i, rejected))
  /\ WF_res(RefreshContinues)

(***************************************************************************)
(* C26                                                                     *)
(***************************************************************************)
NoRepeat(seq) == \A i, j \in DOMAIN seq : seq[i] = seq[j] => i = j

RECURSIVE IsSubsequence(_, _)
IsSubsequence(sub, seq) ==
  IF sub = << >> THEN TRUE
  ELSE IF seq = << >> THEN FALSE
  ELSE IF Head(sub) = Head(seq) THEN IsSubsequence(Tail(sub), Tail(seq))
  ELSE IsSubsequence(sub, Tail(seq))

\* what a run has done up to now, or had done when it ended
RunInOrder(run) ==
  /\ NoRepeat(run.channelIds)
  /\ SeqToSet(run.channelIds) = run.listed
  /\ run.pc = "refreshing" =>
       run.attempted = SubSeq(run.channelIds, 1, run.index - 1)
  /\ run.outcome = "finished" => run.attempted = run.channelIds
  /\ run.outcome \in {"skipped", "threw"} => run.attempted = << >>
  /\ IsSubsequence(run.failed, run.attempted)
  /\ run.processed + Len(run.failed) = Len(run.attempted)

C26_EveryChannelOnce ==
  /\ RunInOrder(res.done)
  /\ \A i \in DOMAIN res.runs : RunInOrder(res.runs[i])

\* a settled refreshChannel is the attempt of the next listed channel; when
\* it threw, the store is as before, the channel is logged as failed and
\* the run goes on to the channel after it or ends
C26_FailureDoesNotStop ==
  \A i \in DOMAIN res.runs :
    LET run == res.runs[i]
        after == IF res'.runs = res.runs THEN run
                 ELSE IF Len(res'.runs) < Len(res.runs) THEN res'.done
                 ELSE res'.runs[i]
    IN run.pc = "refreshing" /\ res'.runs # res.runs =>
         /\ after.attempted = Append(run.attempted, run.channelIds[run.index])
         /\ after.channelIds = run.channelIds
         /\ after.failed # run.failed =>
              /\ after.failed = Append(run.failed, run.channelIds[run.index])
              /\ db' = db
         /\ IF run.index < Len(run.channelIds)
            THEN after.pc = "refreshing" /\ after.index = run.index + 1
            ELSE after.pc = "ended" /\ after.outcome = "finished"

\* C26: a scheduled run attempts the refresh of every distinct channel id
\* subscribed when it lists them exactly once, in ascending order and one
\* after another; a refresh that throws is logged, the run goes on with the
\* next channel, and the failed channel is not attempted again in that run.
C26_ResyncAttemptsEachChannelOnce ==
  []C26_EveryChannelOnce /\ [][C26_FailureDoesNotStop]_vars

\* a run whose first channel failed refreshed the second and finished
C26_Witness ==
  /\ res.done.outcome = "finished"
  /\ res.done.channelIds = <<"c0", "c1">>
  /\ res.done.failed = <<"c0">>
  /\ res.done.processed = 1

(***************************************************************************)
(* C29                                                                     *)
(***************************************************************************)
C29_OneTimerOneRun ==
  /\ Len(res.timers) + Len(res.runs) <= 1
  /\ res.scheduledTimer = "set" <=> res.timers # << >>
  /\ res.scheduling <=> res.calls > 0
  /\ ~res.scheduling => res.timers = << >> /\ res.runs = << >>

\* a call after the first arms nothing, and a run starts only from a timer
\* that was due while no run was in progress
C29_OnlyFirstCallArms ==
  /\ res'.calls # res.calls /\ res.scheduling => res'.timers = res.timers
  /\ Len(res'.runs) > Len(res.runs) =>
       res.runs = << >> /\ res.timers = <<0>> /\ res'.timers = << >>

\* C29: however often scheduleSubscribedChannelSyncJob is called, at most
\* one timer is pending, only the first call arms one, and no run starts
\* while another run is in progress.
C29_SingleTimer == []C29_OneTimerOneRun /\ [][C29_OnlyFirstCallArms]_vars

\* the job was scheduled twice, a run has ended and one timer is pending
C29_Witness ==
  /\ res.calls = 2
  /\ res.done.pc = "ended"
  /\ Len(res.timers) = 1
  /\ res.runs = << >>

(***************************************************************************)
(* C30                                                                     *)
(***************************************************************************)
TimerPending == res.timers # << >>
RunInProgress == res.runs # << >>

\* the step that ends a run arms exactly one timer of at least MinDelay
C30_EndArmsNext ==
  Len(res'.runs) < Len(res.runs) =>
    /\ res'.done.outcome \in {"finished", "skipped", "threw"}
    /\ res'.timers = Append(res.timers, res'.delay)
    /\ res'.delay >= MinDelay
    /\ res'.delay <= DayLen
    /\ res'.scheduledTimer = "set"

\* C30: once scheduled the job never stops: every run that ends, finished,
\* skipped or thrown (the listing included), arms exactly one next timer of
\* at least one second, and a pending timer always leads to a next run.
C30_JobNeverStops ==
  /\ [](res.scheduling => TimerPending \/ RunInProgress)
  /\ [][C30_EndArmsNext]_vars
  /\ (TimerPending ~> RunInProgress)
  /\ (RunInProgress ~> TimerPending)

\* the listing failed, the run threw, and the next timer is pending
C30_Witness ==
  /\ res.done.outcome = "threw"
  /\ TimerPending
  /\ res.delay = MinDelay

(***************************************************************************)
(* Two calls of subscribeChannel for a channel the store does not have,    *)
(* each in its transaction, statement by statement (READ COMMITTED, as     *)
(* above).  arg holds the user of each call; res[p] is call p: the         *)
(* statement it is at, its uncommitted rows and its local variables.       *)
(***************************************************************************)
NewCall ==
  [pc |-> "BEGIN", own |-> EmptyDb, existing |-> {},
   channel |-> fetchChannelById(0, "cx"), customUrl |-> NULL,
   subscribed |-> FALSE, syncScheduled |-> FALSE]

InitSubscribers ==
  /\ db = EmptyDb
  /\ up = 0
  /\ today = 0
  /\ queue = << >>
  /\ last = NoOp
  /\ arg \in [Procs -> Subscribers]
  /\ res = [p \in Procs |-> NewCall]

\* the membership call p is about to record
MembershipRow(p) ==
  [userId |-> arg[p], channelId |-> SyncedChannel,
   customUrl |-> IF res[p].customUrl = NULL THEN SyncedChannel
                 ELSE res[p].customUrl]

\* the table and the row the statement call p is at writes
SeedRowWritten(p) ==
  CASE At(p, "upsertChannel") ->
         <<"channels", ChannelRow(res[p].channel, today)>>
    [] At(p, "upsertChannelStatistics") ->
         <<"channelStats", ChannelStatsRow(res[p].channel, today)>>
    [] At(p, "upsertChannelDaily") ->
         <<"channelDaily", ChannelDailyRow(res[p].channel, today)>>
    [] At(p, "saveChannelEtag") ->
         <<"etags", EtagRow("channel", res[p].channel)>>
    [] OTHER -> << >>

\* the statement of call p waits for the other transaction to end: it
\* writes a row, or inserts a membership, whose key the other holds
SeedWaiting(p) ==
  \/ /\ Len(SeedRowWritten(p)) = 2
     /\ Held(p, SeedRowWritten(p)[1], SeedRowWritten(p)[2])
  \/ /\ At(p, "subscribeUserToChannel")
     /\ \E x \in res[Other(p)].own.subs :
          x.userId = arg[p] /\ x.channelId = SyncedChannel

SubscribeBegin(p) == At(p, "BEGIN") /\ Goto(p, "getChannelById")

\* const existingChannel = await getChannelById(trimmed, client)
GetChannelById(p) ==
  LET existing == getChannelById(View(p).db, SyncedChannel)
  IN /\ At(p, "getChannelById")
     /\ res' = [res EXCEPT
          ![p].existing = existing,
          ![p].customUrl = IF existing = {} THEN NULL
                           ELSE (CHOOSE r \in existing : TRUE).customUrl,
          ![p].syncScheduled = existing = {},
          ![p].pc = IF existing = {} THEN "fetchChannelById"
                    ELSE "subscribeUserToChannel"]
     /\ UNCHANGED <<db, up, today, queue, last, arg>>

\* seedChannelMetadata: const channel = await fetchChannelById(channelId)
FetchChannelById(p) ==
  /\ At(p, "fetchChannelById")
  /\ res' = [res EXCEPT
       ![p].channel = fetchChannelById(up, SyncedChannel),
       ![p].customUrl = fetchChannelById(up, SyncedChannel).customUrl,
       ![p].pc = "upsertChannel"]
  /\ UNCHANGED <<db, up, today, queue, last, arg>>

\* call p writes a row of the seed and goes on
SeedWrite(p, own, pc) ==
  /\ ~SeedWaiting(p)
  /\ res' = [res EXCEPT ![p].own = own, ![p].pc = pc]
  /\ UNCHANGED <<db, up, today, queue, last, arg>>

SeedChannel(p) ==
  /\ At(p, "upsertChannel")
  /\ SeedWrite(p, upsertChannel(res[p].own, ChannelRow(res[p].channel, today)),
               "upsertChannelStatistics")

SeedChannelStatistics(p) ==
  /\ At(p, "upsertChannelStatistics")
  /\ SeedWrite(p, upsertChannelStatistics(
                    res[p].own, ChannelStatsRow(res[p].channel, today)),
               "upsertChannelDaily")

SeedChannelDaily(p) ==
  /\ At(p, "upsertChannelDaily")
  /\ SeedWrite(p, upsertChannelStatisticsDailySnapshot(
                    res[p].own, ChannelDailyRow(res[p].channel, today)),
               "saveChannelEtag")

SeedChannelEtag(p) ==
  /\ At(p, "saveChannelEtag")
  /\ SeedWrite(p, upsertEtag(res[p].own, EtagRow("channel", res[p].channel)),
               "subscribeUserToChannel")

\* INSERT ... ON CONFLICT (user_id, channel_id) DO NOTHING RETURNING 1 on
\* the rows the transaction sees; the rows it adds are its own until COMMIT
SubscribeUserToChannel(p) ==
  LET seen == View(p).db
      after == subscribeUserToChannel(seen, arg[p], SyncedChannel,
                                      res[p].customUrl)
  IN /\ At(p, "subscribeUserToChannel")
     /\ ~SeedWaiting(p)
     /\ res' = [res EXCEPT
          ![p].own.subs = @ \cup (after.subs \ seen.subs),
          ![p].subscribed = after.subs # seen.subs,
          ![p].pc = "COMMIT"]
     /\ UNCHANGED <<db, up, today, queue, last, arg>>

SubscribeCommit(p) ==
  /\ At(p, "COMMIT")
  /\ db' = Merge(db, res[p].own)
  /\ res' = [res EXCEPT ![p].own = EmptyDb, ![p].pc = "committed"]
  /\ UNCHANGED <<up, today, queue, last, arg>>

\* a statement of call p fails: ROLLBACK, the error goes to the caller
SubscribeRollback(p) ==
  /\ res[p].pc \notin {"committed", "done", "failed"}
  /\ res' = [res EXCEPT ![p].own = EmptyDb, ![p].pc = "failed"]
  /\ UNCHANGED <<db, up, today, queue, last, arg>>

\* if (result.syncScheduled) this.scheduleChannelSync(result.channelId)
SubscribeReturn(p) ==
  /\ At(p, "committed")
  /\ queue' = IF res[p].syncScheduled
              THEN scheduleChannelSync(queue, SyncedChannel) ELSE queue
  /\ res' = [res EXCEPT ![p].pc = "done"]
  /\ UNCHANGED <<db, up, today, last, arg>>

\* the platform publishes a revision while the calls run
PlatformRevises ==
  /\ up < MaxTime
  /\ up' = up + 1
  /\ UNCHANGED <<db, today, queue, last, arg, res>>

SubscribeStatement(p) ==
  \/ SubscribeBegin(p)
  \/ GetChannelById(p)
  \/ FetchChannelById(p)
  \/ SeedChannel(p)
  \/ SeedChannelStatistics(p)
  \/ SeedChannelDaily(p)
  \/ SeedChannelEtag(p)
  \/ SubscribeUserToChannel(p)
  \/ SubscribeCommit(p)
  \/ SubscribeRollback(p)
  \/ SubscribeReturn(p)

NextSubscribers ==
  \/ \E p \in Procs : SubscribeStatement(p)
  \/ PlatformRevises

SpecSubscribers == InitSubscribers /\ [][NextSubscribers]_vars

(***************************************************************************)
(* C27                                                                     *)
(***************************************************************************)
Ended(p) == res[p].pc \in {"done", "failed"}
Committed == {p \in Procs : At(p, "done")}

ChannelEntries(d, c) ==
  {r \in d.etags : r.resourceType = "channel" /\ r.resourceId = c}

\* both calls have committed and returned
C27_BothCommitted ==
  Committed = Procs =>
    /\ Cardinality(ChannelRows(db, SyncedChannel)) = 1
    /\ Cardinality({r \in db.channelStats : r.channelId = SyncedChannel}) = 1
    /\ Cardinality(ChannelEntries(db, SyncedChannel)) = 1
    /\ \A u \in Subscribers :
         Cardinality(Memberships(db, u, SyncedChannel))
           = IF \E p \in Procs : arg[p] = u THEN 1 ELSE 0
    /\ Cardinality(db.subs) = Cardinality({arg[p] : p \in Procs})
    /\ OneRowPerKey(db)

\* a call that found the channel absent sets its own callback
C27_EachSeederSchedules ==
  /\ \A p \in Procs :
       res[p].pc \in {"committed", "done"} =>
         res[p].syncScheduled = (res[p].existing = {})
  /\ Len(queue) = Cardinality({p \in Committed : res[p].existing = {}})
  /\ \A i \in DOMAIN queue : queue[i] = SyncedChannel

\* while a call has not ended, one of the calls can take its next step:
\* no call waits for the other forever, so none fails by a deadlock
C27_NoDeadlock ==
  (\A p \in Procs : Ended(p))
    \/ \E p \in Procs : ~Ended(p) /\ ~SeedWaiting(p)

\* C27: two concurrent Subscribe calls for a channel the store does not have
\* (same user or different users) that both commit leave one channel row,
\* one statistics row, one change-cache entry and one membership row per
\* distinct (user, channel); neither waits for the other forever, and each
\* call that found the channel absent sets its own deferred Refresh.
C27_ConcurrentSubscribe ==
  C27_BothCommitted /\ C27_EachSeederSchedules /\ C27_NoDeadlock

\* the same user subscribed twice, both calls seeded the channel from
\* different revisions of the platform, and two callbacks are queued
C27_Witness ==
  /\ Committed = Procs
  /\ arg[1] = arg[2]
  /\ res[1].channel # res[2].channel
  /\ \A p \in Procs : res[p].existing = {}
  /\ Len(queue) = 2
  /\ \E p \in Procs : ~res[p].subscribed

(***************************************************************************)
(* C28                                                                     *)
(***************************************************************************)
\* the current-state rows of the resource a change-cache entry is about
MirrorRows(d, resourceType, resourceId) ==
  CASE resourceType = "channel" -> {r \in d.channels : r.id = resourceId}
    [] resourceType = "playlist" -> {r \in d.playlists : r.id = resourceId}
    [] resourceType = "video" -> {r \in d.videos : r.id = resourceId}
    [] OTHER -> {}

ResourceTypeOf(x) ==
  IF x \in Channels THEN "channel"
  ELSE IF x \in Playlists THEN "playlist" ELSE "video"

C28_EntryHasRow ==
  \A e \in db.etags : MirrorRows(db, e.resourceType, e.resourceId) # {}

\* what a committed Refresh skipped on a tag match had its row before the
\* run and has it after
C28_SkippedHasRow ==
  Synced =>
    \A x \in RunResources :
      SameTag(x) =>
        /\ MirrorRows(last.before, ResourceTypeOf(x), x) # {}
        /\ MirrorRows(db, ResourceTypeOf(x), x) # {}

\* C28: in every committed state each change-cache entry of a channel,
\* playlist or video has a current-state row of that id, so a Refresh that
\* skips a resource on a tag match never skips one without a mirror row.
C28_CacheEntryImpliesRow == C28_EntryHasRow /\ C28_SkippedHasRow

\* a committed Refresh skipped the channel, a playlist and a video
C28_Witness ==
  /\ Synced
  /\ SameTag(last.channelId)
  /\ \E p \in RunPlaylists : SameTag(p) /\ ~Wrote("playlists", p)
  /\ \E v \in RunVideos : SameTag(v) /\ ~Wrote("videos", v)
  /\ C28_EntryHasRow

====
